---- MODULE Spec2Model ----
(***************************************************************************)
(* Model of the macro autocomplete engine (src/src/content/                *)
(* macroAutocomplete.ts, first revision in the file, lines 1-1164), of the *)
(* scoring helpers of utils/context (src/unnamed/part_002) and of the      *)
(* variable processing of utils/storage (src/unnamed/part_001).            *)
(*                                                                         *)
(* Text is a sequence of one-character strings.  Scores are kept in        *)
(* hundredths (Scale) so that the weights 0.05, 0.1, 0.3 and 0.5 of the    *)
(* source stay integers.  Time advances in ticks of 100 ms.                *)
(***************************************************************************)
EXTENDS Integers, Sequences, FiniteSets, TLC

\* ------------------------------------------------------------------ bounds
MaxLen == 2          \* longest text a field of the session model holds
MaxFocus == 3        \* focus events in one run (bounds focusToken)
MaxTimers == 3       \* deferred callbacks pending at one time
MaxPending == 1      \* suggestion recomputations awaiting a store read
MaxTypingFocus == 2  \* focus events in a run with typing
MaxFuzzyLen == 3     \* longest query/text of the pure fuzzy-match check
MaxQueryLen == 2     \* longest query of the ranking model
MaxInsertLen == 3    \* longest text of a surface before an insertion
MaxInsertCalls == 2  \* calls of insertMacro in one run of the session model
MaxKeyCalls == 1     \* calls of insertMacro in a run of the key model
MaxKeyFocus == 1     \* focus events in a run of the key model
MaxIncrements == 3   \* calls of incrementMacroUsage in the store model
MaxUserOps == 1      \* calls of deleteMacro and saveMacro made for the user

\* ------------------------------------------------------- program constants
Scale == 100                 \* scores are in hundredths
FOCUS_DELAY == 3             \* 300 ms, in ticks
AUTOFILL_WAIT == 5           \* 500 ms
EMPTY_FIELD_DELAY == 2       \* 200 ms
BLUR_DELAY == 3              \* 300 ms
TAB_MIN_QUERY == 2           \* query.length < 2 gives no tab match
TAB_MATCH_SCORE == 60        \* nameMatch >= 60
CONTEXT_THRESHOLD == 30
MATCH_THRESHOLD == 20
MAX_SUGGESTIONS == 5

\* -------------------------------------------------------------------- text
UpperToLower == ("S" :> "s") @@ ("C" :> "c")

LowerChar(c) == IF c \in DOMAIN UpperToLower THEN UpperToLower[c] ELSE c

\* String.prototype.toLowerCase
ToLower(s) == IF Len(s) = 0 THEN <<>> ELSE [i \in 1..Len(s) |-> LowerChar(s[i])]

\* String.prototype.startsWith
StartsWith(t, q) == Len(q) <= Len(t) /\ SubSeq(t, 1, Len(q)) = q

\* String.prototype.includes
Includes(t, q) == \E i \in 0..(Len(t) - Len(q)) : SubSeq(t, i + 1, i + Len(q)) = q

\* The scan loop of fuzzyMatch: i runs over the text, qi over the query;
\* the result is <<matches, queryIndex>> (both counted from 0 as in the code).
RECURSIVE FuzzyScan(_, _, _, _, _)
FuzzyScan(t, q, i, qi, m) ==
    IF i > Len(t) \/ qi >= Len(q) THEN <<m, qi>>
    ELSE IF t[i] = q[qi + 1] THEN FuzzyScan(t, q, i + 1, qi + 1, m + 1)
    ELSE FuzzyScan(t, q, i + 1, qi, m)

\* fuzzyMatch with the substring test made before the prefix test.
fuzzyMatchSubstringFirst(query, text) ==
    LET q == ToLower(query)
        t == ToLower(text)
        r == FuzzyScan(t, q, 1, 0, 0)
    IN  IF t = q THEN 100 * Scale
        ELSE IF Includes(t, q) THEN 60 * Scale
        ELSE IF StartsWith(t, q) THEN 80 * Scale
        ELSE IF r[2] = Len(q) THEN 40 * Scale + (r[1] * 20 * Scale) \div Len(q)
        ELSE 0

\* fuzzyMatch(query, text), in hundredths.  40 + (matches / |q|) * 20 is
\* computed as an exact quotient: the branch is reached with |q| >= 1.
fuzzyMatch(query, text) ==
    LET q == ToLower(query)
        t == ToLower(text)
        r == FuzzyScan(t, q, 1, 0, 0)
    IN  IF t = q THEN 100 * Scale
        ELSE IF StartsWith(t, q) THEN 80 * Scale
        ELSE IF Includes(t, q) THEN 60 * Scale
        ELSE IF r[2] = Len(q) THEN 40 * Scale + (r[1] * 20 * Scale) \div Len(q)
        ELSE 0

\* ------------------------------------------------------------ the macros
\* Macros (Macro, src/unnamed/part_007) by id.  The store of the session
\* model holds two of them, in store order: "mail" declares the field type
\* email and has been used 201 times; "sig" has no context metadata.  The
\* others are the candidates of the ranking model.
NoMacro == "null"

Macros ==
    ("sig"  :> [name |-> <<"s", "i", "g">>, content |-> <<"s", "i", "g", "!">>,
                usageCount |-> 0, lastUsed |-> 1, fieldTypes |-> {}, domains |-> {},
                contextUsage |-> [k \in {} |-> 0]])
    @@
    ("mail" :> [name |-> <<"m", "a", "i", "l">>, content |-> <<"m", "@", "x">>,
                usageCount |-> 201, lastUsed |-> 0, fieldTypes |-> {"email"},
                domains |-> {}, contextUsage |-> [k \in {} |-> 0]])
    @@
    ("sip"  :> [name |-> <<"s", "i", "p">>, content |-> <<"s", "i", "p">>,
                usageCount |-> 0, lastUsed |-> 2, fieldTypes |-> {}, domains |-> {},
                contextUsage |-> [k \in {} |-> 0]])
    @@
    ("mall" :> [name |-> <<"m", "a", "l", "l">>, content |-> <<"m">>,
                usageCount |-> 200, lastUsed |-> 0, fieldTypes |-> {"email"},
                domains |-> {}, contextUsage |-> [k \in {} |-> 0]])
    @@
    ("pop"  :> [name |-> <<"p", "o", "p">>, content |-> <<"p">>,
                usageCount |-> 400, lastUsed |-> 0, fieldTypes |-> {}, domains |-> {},
                contextUsage |-> [k \in {} |-> 0]])
    @@
    ("top"  :> [name |-> <<"t", "o", "p">>, content |-> <<"t">>,
                usageCount |-> 401, lastUsed |-> 0, fieldTypes |-> {}, domains |-> {},
                contextUsage |-> [k \in {} |-> 0]])
    @@
    ("us"   :> [name |-> <<"u", "s">>, content |-> <<"u">>,
                usageCount |-> 0, lastUsed |-> 0, fieldTypes |-> {}, domains |-> {},
                contextUsage |-> [k \in {} |-> 0]])
    @@
    ("yes"  :> [name |-> <<"y", "e", "s">>, content |-> <<"y">>,
                usageCount |-> 0, lastUsed |-> 0, fieldTypes |-> {}, domains |-> {},
                contextUsage |-> [k \in {} |-> 0]])
    @@
    ("so"   :> [name |-> <<"s", "o">>, content |-> <<"o">>,
                usageCount |-> 0, lastUsed |-> 0, fieldTypes |-> {},
                domains |-> {<<"d">>}, contextUsage |-> [k \in {} |-> 0]])
    @@
    ("ig"   :> [name |-> <<"i", "g">>, content |-> <<"i">>,
                usageCount |-> 0, lastUsed |-> 0, fieldTypes |-> {}, domains |-> {},
                contextUsage |-> [k \in {} |-> 0]])
    @@
    ("clip" :> [name |-> <<"c", "l", "i", "p">>, content |-> <<"c", "{{clipboard}}">>,
                usageCount |-> 0, lastUsed |-> 0, fieldTypes |-> {}, domains |-> {},
                contextUsage |-> [k \in {} |-> 0]])

StoreMacros == <<"sig", "mail">>
StoredIds == {StoreMacros[i] : i \in DOMAIN StoreMacros}

\* The candidates of the ranking model, in store order.
Catalogue == <<"sig", "mail", "sip", "mall", "pop", "top", "us", "yes", "so">>

\* ---------------------------------------------------------- the surfaces
\* Two plain text fields of one page; "body" stands for any non-editable
\* focus target.  The user types into A; B (an email field) is the one the
\* host page fills in.  R is a contentEditable region of the same page.
Elements == {"A", "B"}
RichElement == "R"
Surfaces == Elements \cup {RichElement}
NoElem == "null"

\* element instanceof HTMLInputElement || element instanceof HTMLTextAreaElement
IsPlain(el) == el \in Elements
Body == "body"
TypedElement == "A"
FilledElement == "B"

\* analyzeFieldContext(target): the field type detected for each surface
\* and the page's host name.
analyzeFieldContext(el) ==
    [fieldType |-> IF el = "B" THEN "email" ELSE "text", domain |-> <<"d">>]

TypeChars == {"s", "i", " "}
FillText == <<"s", "i">>
NoGhost == <<>>

\* matchMacroToContext(macro, context), in hundredths.  contextUsage maps
\* the key domain:fieldType to a count.
matchMacroToContext(macro, context) ==
    LET contextKey == <<context.domain, context.fieldType>>
    IN    (IF context.fieldType \in macro.fieldTypes THEN 10 * Scale ELSE 0)
        + (IF \E d \in macro.domains : Includes(context.domain, d)
             THEN 5 * Scale ELSE 0)
        + (IF contextKey \in DOMAIN macro.contextUsage
             THEN macro.contextUsage[contextKey] * 10 ELSE 0)

\* value.split(/\s+/) then words[words.length - 1]: the text after the last
\* white space.
RECURSIVE LastToken(_)
LastToken(text) ==
    IF Len(text) = 0 THEN <<>>
    ELSE IF text[Len(text)] = " " THEN <<>>
    ELSE Append(LastToken(SubSeq(text, 1, Len(text) - 1)), text[Len(text)])

\* String.prototype.trim
RECURSIVE Trim(_)
Trim(text) ==
    IF Len(text) = 0 THEN text
    ELSE IF Head(text) = " " THEN Trim(Tail(text))
    ELSE IF text[Len(text)] = " " THEN Trim(SubSeq(text, 1, Len(text) - 1))
    ELSE text

Min(a, b) == IF a < b THEN a ELSE b
Max(a, b) == IF a > b THEN a ELSE b

\* ------------------------------------------------------------------- state
VARIABLES
    activeElement,               \* document.activeElement
    value,                       \* element.value of each surface
    active,                      \* state.active
    currentElement,              \* state.currentElement (state.context is its context)
    query,                       \* state.query
    suggestions,                 \* state.suggestions (macro ids)
    selectedIndex,               \* state.selectedIndex
    tabCompletionMatch,          \* state.tabCompletionMatch
    macrosCache,                 \* this.macrosCache
    cacheFresh,                  \* now - cacheTimestamp <= CACHE_DURATION
    overlayContainer,            \* "none", "list" or "icon" (minimized)
    overlayAnchor,               \* the surface the overlay node was positioned for
    inlineSuggestion,            \* ghost text shown (NoGhost: no node)
    isEnabled,
    storedEnabled,               \* chrome.storage.sync autocompleteEnabled
    settingsLoading,             \* loadSettings() of the constructor in flight
    lastInputWasHuman,
    gap,                         \* now - lastInputTime: 0 = 0 ms, 1 = 100 ms,
                                 \* 2 = 200..1900 ms, 3 = 2000 ms or more
    isMinimized,
    dismissedForCurrentInput,
    userExpandedForCurrentInput,
    focusToken,
    timers,                      \* pending setTimeout callbacks
    loads,                       \* loadMacros() calls in flight (constructor)
    pendingUpdates,              \* updateSuggestions() calls awaiting getMacros()
    keyMark,                     \* history: "key"/"paste" handled since the last change
    keySinceFocus,               \* history: a keystroke was handled since the focus event
    escaped,                     \* history: Escape hid the overlay since the focus event
    suggestionsFor,              \* history: the surface state.suggestions was ranked for
    isInserting,
    inFlight,                    \* calls of insertMacro that have not returned, in call order
    insertCalls,                 \* history: calls of insertMacro made
    overlayItems,                \* items of the rendered suggestion list
    caretInText,                 \* the caret of the rich surface is inside a text node
    closedByInsert,              \* history: an insertion succeeded since the last change or focus event
    userMinimized,               \* history: the user's last toggle since the focus event minimized
    overlayNodes,                \* overlay nodes attached to the document
    ghostNodes,                  \* ghost-text nodes attached to the document
    fq, ft, fr,                  \* inputs and result of the pure fuzzy-match check
    field,                       \* the element detectFieldType is called on
    fieldType,                   \* its result ("" before the call)
    rankQuery,                   \* ranking model: state.query
    rankElement,                 \* ranking model: state.currentElement
    rankCache,                   \* ranking model: this.macrosCache
    rankSuggestions,             \* ranking model: state.suggestions after the call
    rankTabMatch,                \* ranking model: state.tabCompletionMatch after the call
    rankDone, tabDone,           \* ranking model: the call has been made
    insKind,                     \* insertion model: "plain" field or "rich" (contentEditable)
    insValue,                    \* element.value, or the text of the caret's text node
    selectionStart,              \* selectionStart / range.startOffset
    selectionEnd,                \* selectionEnd / range.endOffset
    rangeCount,                  \* window.getSelection().rangeCount
    insQuery,                    \* state.query when the insertion runs
    isTabCompletion,             \* the argument of insertMacro
    insMacro,                    \* the macro insertMacro was called with
    clipboardGranted,            \* navigator.clipboard.readText() resolves
    processedContent,            \* the result of processMacroVariables
    dispatched,                  \* events dispatched on the element, in order
    storeUsage,                  \* usageCount of the macro in the store
    contextTracked,              \* trackContextUsage calls made
    insPhase,                    \* "idle", "processing", "applied" or "done"
    trackPhase,                  \* trackContextUsage: "idle", "importing", "rejected" or "refreshed"
    storeContextUsage,           \* contextUsage[domain:fieldType] of the macro in the store
    store,                       \* store model: usageCount of each stored macro
    incs,                        \* store model: the calls of incrementMacroUsage
    storeRest,                   \* store model: the macros in the list, each with the revision of its other fields
    storeVersion,                \* history: writes of the list so far
    notices,                     \* storage.onChanged events not yet delivered to the engine
    reads,                       \* getAllMacros() calls of loadMacros in flight
    cacheList,                   \* the list macrosCache was read from
    cacheVersion,                \* history: the write that list came from
    userOp                       \* store model: a deleteMacro or saveMacro of the popup in flight

vars == <<activeElement, value, active, currentElement, query, suggestions,
          selectedIndex, tabCompletionMatch, macrosCache, cacheFresh,
          overlayContainer, overlayAnchor, inlineSuggestion, isEnabled,
          storedEnabled, settingsLoading, lastInputWasHuman, gap, isMinimized,
          dismissedForCurrentInput, userExpandedForCurrentInput, focusToken,
          timers, loads, pendingUpdates, keyMark, keySinceFocus, escaped,
          suggestionsFor, isInserting, inFlight, insertCalls, overlayItems,
          caretInText, closedByInsert, userMinimized, overlayNodes, ghostNodes>>

fvars == <<fq, ft, fr, field, fieldType>>

rvars == <<rankQuery, rankElement, rankCache, rankSuggestions, rankTabMatch,
           rankDone, tabDone>>

ivars == <<insKind, insValue, selectionStart, selectionEnd, rangeCount, insQuery,
           isTabCompletion, insMacro, clipboardGranted, processedContent,
           dispatched, storeUsage, contextTracked, insPhase, trackPhase,
           storeContextUsage>>

uvars == <<store, incs, storeRest, storeVersion, notices, reads, cacheList,
          cacheVersion, userOp>>

allvars == <<vars, fvars, rvars, ivars, uvars>>

\* The program state as one record, so that a handler is a function from
\* state to state and handlers compose as the calls of the source do.
Cur ==
    [activeElement |-> activeElement, value |-> value, active |-> active,
     currentElement |-> currentElement, query |-> query,
     suggestions |-> suggestions, selectedIndex |-> selectedIndex,
     tabCompletionMatch |-> tabCompletionMatch, macrosCache |-> macrosCache,
     cacheFresh |-> cacheFresh, overlayContainer |-> overlayContainer,
     overlayAnchor |-> overlayAnchor, inlineSuggestion |-> inlineSuggestion,
     isEnabled |-> isEnabled, storedEnabled |-> storedEnabled,
     settingsLoading |-> settingsLoading,
     lastInputWasHuman |-> lastInputWasHuman, gap |-> gap,
     isMinimized |-> isMinimized,
     dismissedForCurrentInput |-> dismissedForCurrentInput,
     userExpandedForCurrentInput |-> userExpandedForCurrentInput,
     focusToken |-> focusToken, timers |-> timers, loads |-> loads,
     pendingUpdates |-> pendingUpdates, keyMark |-> keyMark,
     keySinceFocus |-> keySinceFocus, escaped |-> escaped,
     suggestionsFor |-> suggestionsFor, isInserting |-> isInserting,
     inFlight |-> inFlight, insertCalls |-> insertCalls,
     overlayItems |-> overlayItems, caretInText |-> caretInText,
     closedByInsert |-> closedByInsert, userMinimized |-> userMinimized,
     overlayNodes |-> overlayNodes, ghostNodes |-> ghostNodes]

\* The next session state is s, within the bounds of the model.
Assign(s) ==
    /\ s.focusToken <= MaxFocus
    /\ Cardinality(s.timers) <= MaxTimers
    /\ s.pendingUpdates <= MaxPending
    /\ s.insertCalls <= MaxInsertCalls
    /\ activeElement' = s.activeElement
    /\ value' = s.value
    /\ active' = s.active
    /\ currentElement' = s.currentElement
    /\ query' = s.query
    /\ suggestions' = s.suggestions
    /\ selectedIndex' = s.selectedIndex
    /\ tabCompletionMatch' = s.tabCompletionMatch
    /\ macrosCache' = s.macrosCache
    /\ cacheFresh' = s.cacheFresh
    /\ overlayContainer' = s.overlayContainer
    /\ overlayAnchor' = s.overlayAnchor
    /\ inlineSuggestion' = s.inlineSuggestion
    /\ isEnabled' = s.isEnabled
    /\ storedEnabled' = s.storedEnabled
    /\ settingsLoading' = s.settingsLoading
    /\ lastInputWasHuman' = s.lastInputWasHuman
    /\ gap' = s.gap
    /\ isMinimized' = s.isMinimized
    /\ dismissedForCurrentInput' = s.dismissedForCurrentInput
    /\ userExpandedForCurrentInput' = s.userExpandedForCurrentInput
    /\ focusToken' = s.focusToken
    /\ timers' = s.timers
    /\ loads' = s.loads
    /\ pendingUpdates' = s.pendingUpdates
    /\ keyMark' = s.keyMark
    /\ keySinceFocus' = s.keySinceFocus
    /\ escaped' = s.escaped
    /\ suggestionsFor' = s.suggestionsFor
    /\ isInserting' = s.isInserting
    /\ inFlight' = s.inFlight
    /\ insertCalls' = s.insertCalls
    /\ overlayItems' = s.overlayItems
    /\ caretInText' = s.caretInText
    /\ closedByInsert' = s.closedByInsert
    /\ userMinimized' = s.userMinimized
    /\ overlayNodes' = s.overlayNodes
    /\ ghostNodes' = s.ghostNodes

\* A step of the session alone.
Commit(s) == Assign(s) /\ UNCHANGED <<fvars, rvars, ivars, uvars>>

\* ------------------------------------------------- overlay and ghost text
\* clearInlineSuggestion
clearInlineSuggestion(s) ==
    IF s.inlineSuggestion # NoGhost
    THEN [s EXCEPT !.inlineSuggestion = NoGhost, !.ghostNodes = @ - 1]
    ELSE s

\* updateInlineSuggestion.  The caret of a plain field is collapsed at the
\* end of the text, so start = end = value.length.
updateInlineSuggestion(s) ==
    IF ~s.isEnabled \/ s.dismissedForCurrentInput THEN clearInlineSuggestion(s)
    ELSE IF s.currentElement = NoElem THEN clearInlineSuggestion(s)
    ELSE IF ~IsPlain(s.currentElement) THEN clearInlineSuggestion(s)
    ELSE IF s.tabCompletionMatch = NoMacro \/ Len(s.query) = 0
        THEN clearInlineSuggestion(s)
    ELSE LET textBeforeCursor == s.value[s.currentElement]
             queryStart == Len(textBeforeCursor) - Len(s.query)
             macroContent == Macros[s.tabCompletionMatch].content
             remainder == SubSeq(macroContent, Len(s.query) + 1, Len(macroContent))
         IN  IF queryStart < 0 THEN clearInlineSuggestion(s)
             ELSE IF ~StartsWith(ToLower(macroContent), ToLower(s.query))
                 THEN clearInlineSuggestion(s)
             ELSE IF Len(remainder) = 0 THEN clearInlineSuggestion(s)
             ELSE [s EXCEPT !.inlineSuggestion = remainder,
                            !.ghostNodes = IF s.inlineSuggestion = NoGhost
                                           THEN @ + 1 ELSE @]


\* renderOverlay leaving the node of the previous rendering in the document.
renderOverlayKeepingOld(s) ==
    [s EXCEPT !.overlayContainer = IF s.isMinimized THEN "icon" ELSE "list",
              !.overlayNodes = @ + 1,
              !.overlayAnchor = s.currentElement,
              !.overlayItems = IF s.isMinimized THEN 0 ELSE Len(s.suggestions)]

\* renderOverlay / renderMinimizedOverlay: the old node is removed and a new
\* one is placed at calculatePosition(state.currentElement).
renderOverlay(s) ==
    [s EXCEPT !.overlayContainer = IF s.isMinimized THEN "icon" ELSE "list",
              !.overlayNodes = (IF s.overlayContainer # "none" THEN @ - 1 ELSE @) + 1,
              !.overlayAnchor = s.currentElement,
              !.overlayItems = IF s.isMinimized THEN 0 ELSE Len(s.suggestions)]

\* showOverlay
showOverlay(s) ==
    IF s.currentElement = NoElem THEN s
    ELSE IF s.activeElement # s.currentElement THEN s
    ELSE renderOverlay([s EXCEPT !.active = TRUE,
                                 !.isMinimized = IF ~s.userExpandedForCurrentInput
                                                 THEN FALSE ELSE @])

\* hideOverlay
hideOverlay(s) ==
    clearInlineSuggestion([s EXCEPT !.active = FALSE,
                                    !.tabCompletionMatch = NoMacro,
                                    !.overlayContainer = "none",
                                    !.overlayNodes =
                                        IF s.overlayContainer # "none" THEN @ - 1 ELSE @,
                                    !.overlayAnchor = NoElem,
                                    !.overlayItems = 0])

\* dismissOverlay
dismissOverlay(s) == hideOverlay([s EXCEPT !.dismissedForCurrentInput = TRUE])

\* updateOverlay
updateOverlay(s) ==
    IF s.active /\ s.currentElement # NoElem THEN renderOverlay(s) ELSE s

\* toggleMinimize
toggleMinimize(s) ==
    updateOverlay([s EXCEPT !.isMinimized = ~s.isMinimized,
                            !.userExpandedForCurrentInput =
                                IF s.isMinimized THEN TRUE ELSE @,
                            !.userMinimized = ~s.isMinimized])

\* setEnabled
setEnabled(s, enabled) ==
    LET t == [s EXCEPT !.isEnabled = enabled]
    IN  IF ~enabled THEN clearInlineSuggestion(hideOverlay(t)) ELSE t

\* ----------------------------------------------------------------- scoring
\* The composite score of updateSuggestions for one macro, in hundredths.
\* state.context is the context of state.currentElement (both are set by
\* the focusin listener only), null before the first focus.
\* Score with the usage boost of an empty query given to every macro.
ScoreByPopularity(macro, q, el) ==
    LET hasContext == el # NoElem
        context == analyzeFieldContext(el)
    IN  IF Len(q) > 0
        THEN   Max(fuzzyMatch(q, macro.name), fuzzyMatch(q, macro.content) \div 2)
             + (IF hasContext
                  THEN (matchMacroToContext(macro, context) * 3) \div 10 ELSE 0)
             + macro.usageCount * 5
        ELSE IF hasContext
             THEN matchMacroToContext(macro, context) + macro.usageCount * 10
             ELSE 0

Score(macro, q, el) ==
    LET hasContext == el # NoElem
        context == analyzeFieldContext(el)
    IN  IF Len(q) > 0
        THEN   Max(fuzzyMatch(q, macro.name), fuzzyMatch(q, macro.content) \div 2)
             + (IF hasContext
                  THEN (matchMacroToContext(macro, context) * 3) \div 10 ELSE 0)
             + macro.usageCount * 5
        ELSE IF hasContext
             THEN LET c == matchMacroToContext(macro, context)
                  IN  IF c > 0 THEN c + macro.usageCount * 10 ELSE c
             ELSE 0

\* Threshold with the comparison made inclusive (score >= threshold).
ThresholdInclusive(q) ==
    (IF Len(q) > 0 THEN MATCH_THRESHOLD ELSE CONTEXT_THRESHOLD) * Scale - 1

Threshold(q) == (IF Len(q) > 0 THEN MATCH_THRESHOLD ELSE CONTEXT_THRESHOLD) * Scale

\* The sort with the comparator reversed (a.score - b.score).
RECURSIVE InsertByScoreAscending(_, _, _)
InsertByScoreAscending(sorted, id, score) ==
    IF Len(sorted) = 0 THEN <<id>>
    ELSE IF score[Head(sorted)] <= score[id]
        THEN <<Head(sorted)>> \o InsertByScoreAscending(Tail(sorted), id, score)
    ELSE <<id>> \o sorted

\* filtered.sort((a, b) => b.score - a.score): a stable sort, by insertion.
RECURSIVE InsertByScore(_, _, _)
InsertByScore(sorted, id, score) ==
    IF Len(sorted) = 0 THEN <<id>>
    ELSE IF score[Head(sorted)] >= score[id]
        THEN <<Head(sorted)>> \o InsertByScore(Tail(sorted), id, score)
    ELSE <<id>> \o sorted

RECURSIVE SortByScore(_, _)
SortByScore(ids, score) ==
    IF Len(ids) = 0 THEN <<>>
    ELSE InsertByScore(SortByScore(SubSeq(ids, 1, Len(ids) - 1), score),
                       ids[Len(ids)], score)

\* The part of updateSuggestions after `await this.getMacros()`.
UpdateTail(s) ==
    LET q == Trim(ToLower(s.query))
        score == [id \in DOMAIN Macros |-> Score(Macros[id], q, s.currentElement)]
        filtered == SelectSeq(s.macrosCache, LAMBDA id : score[id] > Threshold(q))
        sorted == SortByScore(filtered, score)
        t == [s EXCEPT !.suggestions = SubSeq(sorted, 1, Min(Len(sorted), MAX_SUGGESTIONS)),
                       !.selectedIndex = 0,
                       !.suggestionsFor = s.currentElement]
    IN  IF Len(t.suggestions) > 0 /\ t.currentElement # NoElem
        THEN showOverlay(t) ELSE hideOverlay(t)

\* updateSuggestions.  With a fresh cache getMacros() resolves without a
\* store read and the rest runs before any other event; with an expired
\* cache the rest waits for loadMacros().
updateSuggestions(s) ==
    IF s.dismissedForCurrentInput THEN s
    ELSE IF s.cacheFresh THEN UpdateTail(s)
    ELSE [s EXCEPT !.pendingUpdates = @ + 1]


\* checkTabCompletion choosing the macro whose name matches best.
checkTabCompletionBestMatch(s, q) ==
    IF Len(q) = 0 \/ Len(q) < TAB_MIN_QUERY
    THEN updateInlineSuggestion([s EXCEPT !.tabCompletionMatch = NoMacro])
    ELSE LET hits == SelectSeq(s.macrosCache,
                        LAMBDA id : fuzzyMatch(q, Macros[id].name) >= TAB_MATCH_SCORE * Scale)
             best == SelectSeq(hits,
                        LAMBDA id : \A j \in DOMAIN hits :
                            fuzzyMatch(q, Macros[hits[j]].name) <= fuzzyMatch(q, Macros[id].name))
         IN  updateInlineSuggestion(
                 [s EXCEPT !.tabCompletionMatch =
                               IF Len(hits) > 0 THEN Head(best) ELSE NoMacro])

\* checkTabCompletion
checkTabCompletion(s, q) ==
    IF Len(q) = 0 \/ Len(q) < TAB_MIN_QUERY
    THEN updateInlineSuggestion([s EXCEPT !.tabCompletionMatch = NoMacro])
    ELSE LET hits == SelectSeq(s.macrosCache,
                        LAMBDA id : fuzzyMatch(q, Macros[id].name) >= TAB_MATCH_SCORE * Scale)
         IN  updateInlineSuggestion(
                 [s EXCEPT !.tabCompletionMatch =
                               IF Len(hits) > 0 THEN Head(hits) ELSE NoMacro])

\* getCurrentText: the last word before the caret of a plain field; for a
\* contentEditable element the last word of the caret's text node, and ""
\* when the caret is not inside a text node.
getCurrentText(s, el) ==
    IF IsPlain(el) THEN LastToken(s.value[el])
    ELSE IF s.caretInText THEN LastToken(s.value[el])
    ELSE <<>>

\* handleInput
handleInput(s, el) ==
    IF ~s.isEnabled THEN s
    ELSE LET q == getCurrentText(s, el)
         IN  updateSuggestions(checkTabCompletion([s EXCEPT !.query = q], q))

\* ---------------------------------------------------------------- timers
\* A pending setTimeout callback: kind names the callback, el and token are
\* the surface and the focus token of the focus event it descends from,
\* rem the ticks left.
Timer(kind, el, token, rem) == [kind |-> kind, el |-> el, token |-> token, rem |-> rem]

\* ------------------------------------------------------------- insertMacro
ClipboardToken == "{{clipboard}}"
ClipboardText == <<"k">>

\* String.prototype.replace(/\{\{clipboard\}\}/g, text)
RECURSIVE ReplaceToken(_, _, _)
ReplaceToken(content, token, text) ==
    IF Len(content) = 0 THEN <<>>
    ELSE (IF Head(content) = token THEN text ELSE <<Head(content)>>)
         \o ReplaceToken(Tail(content), token, text)

\* processMacroVariables, for a body whose only variable is {{clipboard}}:
\* a rejected clipboard read is caught and the variable replaced by "".
processMacroVariables(content, granted) ==
    IF \E i \in DOMAIN content : content[i] = ClipboardToken
    THEN IF granted THEN ReplaceToken(content, ClipboardToken, ClipboardText)
         ELSE ReplaceToken(content, ClipboardToken, <<>>)
    ELSE content

\* String.prototype.substring(a, b): both ends are clamped to the string
\* and swapped when out of order.
Substring(v, a, b) ==
    LET x == IF a < 0 THEN 0 ELSE Min(a, Len(v))
        y == IF b < 0 THEN 0 ELSE Min(b, Len(v))
    IN  SubSeq(v, Min(x, y) + 1, Max(x, y))

\* String.prototype.endsWith
EndsWith(t, q) == Len(q) <= Len(t) /\ SubSeq(t, Len(t) - Len(q) + 1, Len(t)) = q

\* element.selectionStart = element.selectionEnd = n: the offset is an
\* unsigned long, and an offset past the end is set to the end.
SetCaret(n, len) == IF n < 0 \/ n > len THEN len ELSE n

\* The plain-field branch that always leaves the caret at start + |T|.
insertPlainCaretFromStart(v, start, end, q, isTab, T) ==
    LET atCursor == [value |-> Substring(v, 0, start) \o T \o Substring(v, end, Len(v)),
                     caret |-> start + Len(T)]
        replaced == [value |-> Substring(v, 0, start - Len(q)) \o T
                               \o Substring(v, end, Len(v)),
                     caret |-> start + Len(T)]
        textBeforeCursor == Substring(v, 0, start)
        potentialQuery == Substring(textBeforeCursor,
                                    Len(textBeforeCursor) - Len(q), Len(textBeforeCursor))
    IN  IF isTab /\ Len(q) > 0 THEN replaced
        ELSE IF Len(q) > 0 /\ start > 0
            THEN IF Len(textBeforeCursor) >= Len(q)
                 THEN IF \/ ToLower(potentialQuery) = ToLower(q)
                         \/ EndsWith(ToLower(textBeforeCursor), ToLower(q))
                      THEN replaced ELSE atCursor
                 ELSE atCursor
        ELSE atCursor

\* insertMacro, the branch for an input or textarea: the new value and the
\* offset the caret is set to.
insertPlain(v, start, end, q, isTab, T) ==
    LET atCursor == [value |-> Substring(v, 0, start) \o T \o Substring(v, end, Len(v)),
                     caret |-> start + Len(T)]
        queryStart == start - Len(q)
        replaced == [value |-> Substring(v, 0, queryStart) \o T
                               \o Substring(v, end, Len(v)),
                     caret |-> queryStart + Len(T)]
        textBeforeCursor == Substring(v, 0, start)
        potentialQuery == Substring(textBeforeCursor,
                                    Len(textBeforeCursor) - Len(q), Len(textBeforeCursor))
    IN  IF isTab /\ Len(q) > 0 THEN replaced
        ELSE IF Len(q) > 0 /\ start > 0
            THEN IF Len(textBeforeCursor) >= Len(q)
                 THEN IF \/ ToLower(potentialQuery) = ToLower(q)
                         \/ EndsWith(ToLower(textBeforeCursor), ToLower(q))
                      THEN replaced ELSE atCursor
                 ELSE atCursor
        ELSE atCursor

\* insertMacro, the branch for a contentEditable element with a selection:
\* the range is widened over the query (tab completion), its contents are
\* deleted, the text node is inserted and the range collapsed after it.
insertRich(v, start, end, q, isTab, T) ==
    LET from == IF isTab /\ Len(q) > 0 THEN Max(0, start - Len(q)) ELSE start
    IN  [value |-> SubSeq(v, 1, from) \o T \o SubSeq(v, end + 1, Len(v)),
         caret |-> from + Len(T)]

\* A call of insertMacro that has not returned: the macro, the
\* isTabCompletion argument, the element it acts on and how far it is,
\* "processing" (awaiting processMacroVariables) or "applied" (awaiting
\* incrementMacroUsage).
Call(macro, isTab, el, phase) ==
    [macro |-> macro, isTab |-> isTab, el |-> el, phase |-> phase]

\* insertMacro up to `await processMacroVariables(macro.content)`
insertMacro(s, macro, isTab) ==
    IF s.currentElement = NoElem THEN s
    ELSE [s EXCEPT !.isInserting = TRUE,
                   !.inFlight = Append(@, Call(macro, isTab, s.currentElement,
                                               "processing")),
                   !.insertCalls = @ + 1]

\* What utils/storage exports.
StorageExports ==
    {"getAllMacros", "saveMacro", "deleteMacro", "getAllTags", "createMacro",
     "incrementMacroUsage", "exportMacros", "importMacros"}

\* trackContextUsage, the session having a context: the function it takes
\* from the dynamic import of utils/storage is called, then loadMacros().
\* Calling a name the module does not export throws a TypeError and the
\* promise of trackContextUsage, which nothing awaits, is rejected.
trackContextUsage ==
    IF "trackMacroContextUsage" \in StorageExports THEN "refreshed" ELSE "rejected"

\* ------------------------------------------------------- document listeners
\* focusin listener, for an editable target
focusinHandler(s, target) ==
    LET token == s.focusToken + 1
        t == clearInlineSuggestion(
                 [s EXCEPT !.currentElement = target,
                           !.query = <<>>,
                           !.dismissedForCurrentInput = FALSE,
                           !.isMinimized = FALSE,
                           !.userExpandedForCurrentInput = FALSE,
                           !.keyMark = "none",
                           !.keySinceFocus = FALSE,
                           !.escaped = FALSE,
                           !.closedByInsert = FALSE,
                           !.userMinimized = FALSE])
    IN  [t EXCEPT !.focusToken = token,
                  !.timers = {x \in @ : x.kind # "focus"}
                             \cup {Timer("focus", target, token, FOCUS_DELAY)}]

\* focusout listener.  The related target is never inside the overlay node
\* that exists when the grace timer runs: the only focusable overlay nodes
\* are its buttons, and a click on either replaces or removes the node.
focusoutHandler(s, target) ==
    IF target # s.currentElement THEN s
    ELSE [s EXCEPT !.timers = {x \in @ : x.kind # "focus"}
                              \cup {Timer("blur", NoElem, 0, BLUR_DELAY)}]


\* handleFocus without the deferred callback of an empty surface.
handleFocusPrefilledOnly(s, element, token) ==
    IF ~s.isEnabled THEN s
    ELSE IF element # s.currentElement THEN s
    ELSE IF s.activeElement # element THEN s
    ELSE IF IsPlain(element) /\ Len(s.value[element]) > 0
        THEN [s EXCEPT !.timers = @ \cup {Timer("filled", element, token, AUTOFILL_WAIT)}]
    ELSE s

\* handleFocus
handleFocus(s, element, token) ==
    IF ~s.isEnabled THEN s
    ELSE IF element # s.currentElement THEN s
    ELSE IF s.activeElement # element THEN s
    ELSE IF IsPlain(element) /\ Len(s.value[element]) > 0
        THEN [s EXCEPT !.timers = @ \cup {Timer("filled", element, token, AUTOFILL_WAIT)}]
    ELSE [s EXCEPT !.timers = @ \cup {Timer("empty", element, token, EMPTY_FIELD_DELAY)}]

\* The callback of each setTimeout, run when the timer t expires.
TimerCallback(s, t) ==
    CASE t.kind = "focus" ->
            IF s.focusToken # t.token THEN s
            ELSE IF s.activeElement # t.el THEN s
            ELSE handleFocus(s, t.el, t.token)
      [] t.kind = "filled" ->
            IF t.el # s.currentElement THEN s
            ELSE IF s.activeElement # t.el THEN s
            ELSE IF Len(s.value[t.el]) > 0 /\ ~s.lastInputWasHuman THEN s
            ELSE IF Len(s.value[t.el]) = 0 \/ s.lastInputWasHuman
                THEN updateSuggestions(s)
            ELSE s
      [] t.kind = "empty" ->
            IF t.el # s.currentElement THEN s
            ELSE IF s.activeElement # t.el THEN s
            ELSE IF IsPlain(t.el)
                THEN IF Len(s.value[t.el]) = 0 THEN updateSuggestions(s) ELSE s
            ELSE updateSuggestions(s)
      [] t.kind = "blur" ->
            IF s.activeElement # s.currentElement /\ ~s.isInserting
            THEN hideOverlay(s) ELSE s

\* input listener; the surface already holds its new value.
inputHandler(s, target) ==
    IF target # s.currentElement THEN s
    ELSE LET isHumanTyping == s.gap \in {1, 2}
             valueLength == Len(s.value[target])
             wasEmpty == Len(s.value[s.currentElement]) = 0
             u == [s EXCEPT !.gap = 0, !.keyMark = "none", !.closedByInsert = FALSE]
         IN  IF wasEmpty /\ valueLength > 0 /\ ~s.lastInputWasHuman /\ s.gap >= 2
             THEN [u EXCEPT !.lastInputWasHuman = FALSE]
             ELSE handleInput([u EXCEPT !.lastInputWasHuman = isHumanTyping], target)

CharKeys == {"s", "Backspace"}
Keys == CharKeys \cup {"ArrowDown", "ArrowUp", "Escape"}
CommitKeys == {"Enter", "Tab", "Shift+Tab"}

\* e.key and e.shiftKey of a key press
KeyName(key) == IF key = "Shift+Tab" THEN "Tab" ELSE key
ShiftKey(key) == key = "Shift+Tab"

\* keydown listener that detects human typing
keydownMark(s, target, key) ==
    IF target = s.currentElement /\ key \in CharKeys
    THEN [s EXCEPT !.lastInputWasHuman = TRUE, !.gap = 0,
                   !.keyMark = "key", !.keySinceFocus = TRUE]
    ELSE s

handleKeyDownWhileMinimized(s, key) ==
    IF ~s.active THEN s
    ELSE CASE key = "ArrowDown" ->
                 updateOverlay([s EXCEPT !.selectedIndex =
                                    Min(s.selectedIndex + 1, Len(s.suggestions) - 1)])
           [] key = "ArrowUp" ->
                 updateOverlay([s EXCEPT !.selectedIndex = Max(s.selectedIndex - 1, 0)])
           [] key = "Enter" ->
                 IF s.selectedIndex + 1 \in DOMAIN s.suggestions
                 THEN insertMacro(s, s.suggestions[s.selectedIndex + 1], FALSE)
                 ELSE s
           [] KeyName(key) = "Tab" ->
                 IF s.tabCompletionMatch # NoMacro /\ ~ShiftKey(key)
                 THEN insertMacro(s, s.tabCompletionMatch, TRUE)
                 ELSE s
           [] key = "Escape" -> hideOverlay([s EXCEPT !.escaped = TRUE])
           [] OTHER -> s

\* handleKeyDown
handleKeyDown(s, key) ==
    IF ~s.active \/ s.isMinimized THEN s
    ELSE CASE key = "ArrowDown" ->
                 updateOverlay([s EXCEPT !.selectedIndex =
                                    Min(s.selectedIndex + 1, Len(s.suggestions) - 1)])
           [] key = "ArrowUp" ->
                 updateOverlay([s EXCEPT !.selectedIndex = Max(s.selectedIndex - 1, 0)])
           [] key = "Enter" ->
                 IF s.selectedIndex + 1 \in DOMAIN s.suggestions
                 THEN insertMacro(s, s.suggestions[s.selectedIndex + 1], FALSE)
                 ELSE s
           [] KeyName(key) = "Tab" ->
                 IF s.tabCompletionMatch # NoMacro /\ ~ShiftKey(key)
                 THEN insertMacro(s, s.tabCompletionMatch, TRUE)
                 ELSE s
           [] key = "Escape" -> hideOverlay([s EXCEPT !.escaped = TRUE])
           [] OTHER -> s

\* the second keydown listener
keydownHandler(s, key) ==
    IF s.active /\ s.currentElement # NoElem THEN handleKeyDown(s, key) ELSE s

\* paste listener
pasteHandler(s, target) ==
    IF target # s.currentElement THEN s
    ELSE [s EXCEPT !.lastInputWasHuman = FALSE, !.gap = 0, !.keyMark = "paste"]

\* click listener of the document, for a click outside the overlay
clickHandler(s) == IF s.active /\ ~s.isInserting THEN hideOverlay(s) ELSE s

\* element.focus(): when the element does not have focus already, the
\* focusout of the element that had it and the focusin of this one.
focusElement(s, el) ==
    IF s.activeElement = el THEN s
    ELSE focusinHandler([focusoutHandler(s, s.activeElement)
                             EXCEPT !.activeElement = el], el)

\* insertMacro from the processed content to `await incrementMacroUsage`,
\* for the call at place i, then the microtasks that were queued meanwhile.
\* The caret is at the end of the text.  The input listener runs inside
\* dispatchEvent; the updateSuggestions() it starts goes on, the cache being
\* fresh, once insertMacro has reached its await, and with an expired cache
\* when the store read completes.
insertApply(s, i) ==
    LET call == s.inFlight[i]
        el == call.el
        T == processMacroVariables(Macros[call.macro].content, TRUE)
        caret == Len(s.value[el])
        r == IF IsPlain(el)
             THEN insertPlain(s.value[el], caret, caret, s.query, call.isTab, T)
             ELSE insertRich(s.value[el], caret, caret, s.query, call.isTab, T)
        s1 == [s EXCEPT !.value[el] = r.value,
                        !.caretInText = IF IsPlain(el) THEN @ ELSE FALSE,
                        !.inFlight[i].phase = "applied"]
        s2 == inputHandler([s1 EXCEPT !.cacheFresh = FALSE], el)
        started == s2.pendingUpdates > s1.pendingUpdates
        s3 == [s2 EXCEPT !.cacheFresh = s1.cacheFresh]
        s4 == IF IsPlain(el) THEN focusElement(s3, el) ELSE s3
    IN  IF started /\ s1.cacheFresh
        THEN UpdateTail([s4 EXCEPT !.pendingUpdates = @ - 1])
        ELSE s4

\* The continuation of a call awaiting processMacroVariables: the bodies of
\* the stored macros have no variable to wait for, so it runs as soon as
\* the listeners of the event that made the call have returned.
resumeInsert(s) ==
    IF \E i \in DOMAIN s.inFlight : s.inFlight[i].phase = "processing"
    THEN insertApply(s, CHOOSE i \in DOMAIN s.inFlight :
                            s.inFlight[i].phase = "processing")
    ELSE s

\* insertMacro from the settling of incrementMacroUsage to the end of the
\* finally block, for the call at place i.  When the store has been
\* written its change listener starts a loadMacros(), and trackContextUsage
\* one more if it gets that far.
insertSettle(s, i, ok) ==
    LET el == s.inFlight[i].el
        rest == SubSeq(s.inFlight, 1, i - 1)
                    \o SubSeq(s.inFlight, i + 1, Len(s.inFlight))
        s1 == [s EXCEPT !.inFlight = rest]
        s2 == IF ok
              THEN hideOverlay(
                       [s1 EXCEPT !.loads = @ + 1
                                      + (IF trackContextUsage = "refreshed"
                                         THEN 1 ELSE 0)])
              ELSE s1
        s3 == [s2 EXCEPT !.isInserting = FALSE]
        s4 == IF IsPlain(el) THEN focusElement(s3, el) ELSE s3
    IN  [s4 EXCEPT !.closedByInsert = IF ok THEN TRUE ELSE @]

\* --------------------------------------------------------------------- Init
\* The state the constructor leaves, but for the two store reads it starts.
SessionInit ==
    /\ activeElement = Body
    /\ value = [e \in Surfaces |-> <<>>]
    /\ active = FALSE
    /\ currentElement = NoElem
    /\ query = <<>>
    /\ suggestions = <<>>
    /\ selectedIndex = 0
    /\ tabCompletionMatch = NoMacro
    /\ overlayContainer = "none"
    /\ overlayAnchor = NoElem
    /\ inlineSuggestion = NoGhost
    /\ overlayNodes = 0
    /\ ghostNodes = 0
    /\ isEnabled = TRUE
    /\ lastInputWasHuman = FALSE
    /\ gap = 3
    /\ isMinimized = FALSE
    /\ dismissedForCurrentInput = FALSE
    /\ userExpandedForCurrentInput = FALSE
    /\ focusToken = 0
    /\ timers = {}
    /\ pendingUpdates = 0
    /\ keyMark = "none"
    /\ keySinceFocus = FALSE
    /\ escaped = FALSE
    /\ suggestionsFor = NoElem
    /\ isInserting = FALSE
    /\ inFlight = <<>>
    /\ insertCalls = 0
    /\ overlayItems = 0
    /\ caretInText = FALSE
    /\ closedByInsert = FALSE
    /\ userMinimized = FALSE


\* No field is being classified.
FieldIdle ==
    /\ field = [tag |-> "input", type |-> "text", name |-> <<>>, id |-> <<>>,
                placeholder |-> <<>>]
    /\ fieldType = ""

\* The ranking model at rest.
RankIdle ==
    /\ rankQuery = <<>>
    /\ rankElement = NoElem
    /\ rankCache = <<>>
    /\ rankSuggestions = <<>>
    /\ rankTabMatch = NoMacro
    /\ rankDone = FALSE
    /\ tabDone = FALSE

\* No insertion is under way.
InsertIdle ==
    /\ insKind = "plain"
    /\ insValue = <<>>
    /\ selectionStart = 0
    /\ selectionEnd = 0
    /\ rangeCount = 1
    /\ insQuery = <<>>
    /\ isTabCompletion = FALSE
    /\ insMacro = NoMacro
    /\ clipboardGranted = TRUE
    /\ processedContent = <<>>
    /\ dispatched = <<>>
    /\ storeUsage = 0
    /\ contextTracked = 0
    /\ insPhase = "idle"
    /\ trackPhase = "idle"
    /\ storeContextUsage = 0

\* A call of incrementMacroUsage(id): pc is "idle" before the call, "read"
\* once its getAllMacros() has resolved and the macro found has been
\* counted up, "saving" once the getAllMacros() of saveMacro has resolved
\* and the macro has been put in its place, "done" after the set.
NoIncrement ==
    [id |-> NoMacro, pc |-> "idle", usageCount |-> 0,
     macros |-> [id \in StoredIds |-> 0], rev |-> 0,
     rest |-> [id \in StoredIds |-> 0]]

\* No deleteMacro or saveMacro of the popup is in flight.
NoUserOp == [kind |-> "none", id |-> NoMacro, macros |-> <<>>, rest |-> <<>>, calls |-> 0]

\* The macro list in chrome.storage.sync
StoreList == [usage |-> store, rest |-> storeRest]

\* No call of incrementMacroUsage has been made.
UsageIdle ==
    /\ store = [id \in StoredIds |-> Macros[id].usageCount]
    /\ incs = [p \in 1..MaxIncrements |-> NoIncrement]
    /\ storeRest = [id \in StoredIds |-> 0]
    /\ storeVersion = 0
    /\ notices = 0
    /\ reads = <<>>
    /\ cacheList = StoreList
    /\ cacheVersion = 0
    /\ userOp = NoUserOp

\* Right after construction: loadMacros() and loadSettings() are in flight.
StartupInit ==
    /\ SessionInit
    /\ RankIdle
    /\ InsertIdle
    /\ UsageIdle
    /\ macrosCache = <<>>
    /\ cacheFresh = FALSE
    /\ loads = 1
    /\ settingsLoading = TRUE
    /\ storedEnabled \in BOOLEAN
    /\ fq = <<>>
    /\ ft = <<>>
    /\ fr = -1
    /\ FieldIdle

\* Once both reads have completed, with the feature enabled in the store.
LoadedInit ==
    /\ SessionInit
    /\ macrosCache = StoreMacros
    /\ cacheFresh = TRUE
    /\ loads = 0
    /\ settingsLoading = FALSE
    /\ storedEnabled = TRUE

Init ==
    /\ LoadedInit
    /\ RankIdle
    /\ InsertIdle
    /\ UsageIdle
    /\ fq = <<>>
    /\ ft = <<>>
    /\ fr = -1
    /\ FieldIdle

\* ------------------------------------------------------------------ actions
\* Focus moves to the editable surface e: focusout of the surface that had
\* it, then focusin of e.
Focus(e) ==
    /\ activeElement # e
    /\ LET s1 == focusoutHandler(Cur, activeElement)
       IN  Commit(focusinHandler([s1 EXCEPT !.activeElement = e], e))

\* Focus leaves the surface for a non-editable target.
Blur ==
    /\ activeElement \in Surfaces
    /\ Commit([focusoutHandler(Cur, activeElement) EXCEPT !.activeElement = Body])

\* A character is entered at the end of the focused surface.
TypeChar(c) ==
    /\ activeElement = TypedElement
    /\ Len(value[activeElement]) < MaxLen
    /\ LET e == activeElement
       IN  Commit(inputHandler([Cur EXCEPT !.value[e] = Append(@, c)], e))

\* The last character of the focused surface is deleted.
DeleteChar ==
    /\ activeElement = TypedElement
    /\ Len(value[activeElement]) > 0
    /\ LET e == activeElement
       IN  Commit(inputHandler([Cur EXCEPT !.value[e] = SubSeq(@, 1, Len(@) - 1)], e))

\* The whole value of a surface is set at once (host autofill, paste, a
\* script), focused or not, and an input event is dispatched.
Fill ==
    /\ value[FilledElement] # FillText
    /\ Commit(inputHandler([Cur EXCEPT !.value[FilledElement] = FillText], FilledElement))

\* The state a key press on the focused element leads to: both keydown
\* listeners run, then an insertion the press has started goes on.
KeyPress(s, key) ==
    resumeInsert(keydownHandler(keydownMark(s, s.activeElement, key), key))

\* A key goes down on the focused element.
KeyDown(key) ==
    /\ key \in Keys \cup CommitKeys
    /\ Commit(KeyPress(Cur, key))

Paste ==
    /\ activeElement \in Elements
    /\ Commit(pasteHandler(Cur, activeElement))

\* A click that lands outside the overlay.
ClickOutside ==
    /\ active
    /\ Commit(clickHandler(Cur))

\* A click on the close button.  Whether the click moves focus to the
\* button is up to the platform and the page; if it does, the surface gets
\* a focusout and, the button being removed with the overlay, focus ends on
\* the body.
CloseClick(moves) ==
    /\ overlayContainer = "list"
    /\ moves => activeElement \in Elements
    /\ LET s1 == IF moves THEN focusoutHandler(Cur, activeElement) ELSE Cur
           s2 == dismissOverlay(s1)
       IN  Commit(IF moves THEN [s2 EXCEPT !.activeElement = Body] ELSE s2)

\* A click on the minimize button of the list, or on the icon of the
\* minimized overlay: the click listener of the document finds the target
\* inside the overlay, then the onclick of the target runs.  As for the
\* close button, the click may take focus from the surface; the node
\* clicked is replaced, so focus ends on the body.
ToggleClick(moves) ==
    /\ moves => activeElement \in Surfaces
    /\ LET s1 == IF moves THEN focusoutHandler(Cur, activeElement) ELSE Cur
           s2 == toggleMinimize(s1)
       IN  Commit(IF moves THEN [s2 EXCEPT !.activeElement = Body] ELSE s2)

MinimizeClick(moves) == overlayContainer = "list" /\ ToggleClick(moves)

IconClick(moves) == overlayContainer = "icon" /\ ToggleClick(moves)

\* The pointer enters the item at place index (from 0) of the rendered
\* list: its onmouseenter runs.
Hover(index) ==
    /\ overlayContainer = "list"
    /\ index \in 0..(overlayItems - 1)
    /\ Commit(updateOverlay([Cur EXCEPT !.selectedIndex = index]))

\* A character is typed into the focused contentEditable region, whose
\* text is one text node with the caret at its end.  Nothing is typed
\* after an insertion has split the node.
TypeRich(c) ==
    /\ activeElement = RichElement
    /\ Len(value[RichElement]) < MaxLen
    /\ insertCalls = 0
    /\ Commit(inputHandler([Cur EXCEPT !.value[RichElement] = Append(@, c),
                                       !.caretInText = TRUE], RichElement))

\* incrementMacroUsage settles for a call of insertMacro, resolved (ok) or
\* rejected, and the call runs to its end.
UsageSettled(ok) ==
    \E i \in DOMAIN inFlight :
        /\ inFlight[i].phase = "applied"
        /\ Commit(insertSettle(Cur, i, ok))

\* scroll listener of the window
Scroll ==
    /\ currentElement # NoElem
    /\ Commit(updateOverlay(updateInlineSuggestion(Cur)))

\* A timer expires and its callback runs.
Fire ==
    \E t \in timers :
        /\ t.rem = 0
        /\ Commit(TimerCallback([Cur EXCEPT !.timers = @ \ {t}], t))

\* 100 ms pass; an expired timer runs first.
Tick ==
    /\ \A t \in timers : t.rem > 0
    /\ timers # {} \/ gap < 2
    /\ Commit([Cur EXCEPT !.timers = {[t EXCEPT !.rem = @ - 1] : t \in @},
                          !.gap = IF @ < 2 THEN @ + 1 ELSE @])

\* Two seconds or more pass since the last input, with no timer pending.
LongIdle ==
    /\ timers = {}
    /\ gap = 2
    /\ Commit([Cur EXCEPT !.gap = 3])

\* The cache becomes older than CACHE_DURATION.
Expire ==
    /\ cacheFresh
    /\ Commit([Cur EXCEPT !.cacheFresh = FALSE])

\* loadMacros() of the constructor completes.
LoadDone ==
    /\ loads > 0
    /\ Commit([Cur EXCEPT !.loads = @ - 1, !.macrosCache = StoreMacros,
                          !.cacheFresh = TRUE])

\* The loadMacros() awaited by an updateSuggestions() completes and the
\* recomputation goes on.
UpdateLoadDone ==
    /\ pendingUpdates > 0
    /\ Commit(UpdateTail([Cur EXCEPT !.pendingUpdates = @ - 1,
                                     !.macrosCache = StoreMacros,
                                     !.cacheFresh = TRUE]))

\* loadSettings() completes.
LoadSettingsDone ==
    /\ settingsLoading
    /\ Commit([Cur EXCEPT !.settingsLoading = FALSE, !.isEnabled = storedEnabled])

\* The stored setting changes and the change listener calls setEnabled.
SettingChanged ==
    \E enabled \in BOOLEAN :
        /\ enabled # storedEnabled
        /\ Commit(setEnabled([Cur EXCEPT !.storedEnabled = enabled], enabled))

\* Focus changes, deferred callbacks and the events that make a surface
\* look filled in or typed in; the text of the typed surface stays empty.
FocusNext ==
    \/ \E e \in Elements : Focus(e)
    \/ Blur
    \/ Fill
    \/ \E key \in Keys : KeyDown(key)
    \/ ClickOutside
    \/ Fire
    \/ Tick
    \/ LongIdle

FocusSpec == Init /\ [][FocusNext]_allvars

\* Typing, keys, paste and fills on a session of at most MaxTypingFocus
\* focus events, against a fresh cache.
TypingFocus(e) == focusToken < MaxTypingFocus /\ Focus(e)

TypingNext ==
    \/ \E e \in Elements : TypingFocus(e)
    \/ \E c \in TypeChars : TypeChar(c)
    \/ DeleteChar
    \/ Fill
    \/ \E key \in Keys : KeyDown(key)
    \/ Paste
    \/ Fire
    \/ Tick
    \/ LongIdle

TypingSpec == Init /\ [][TypingNext]_allvars

\* Typing against the ways an overlay goes away (Escape, the close button,
\* a click outside) while the cache expires under the recomputations.
DismissNext ==
    \/ \E e \in Elements : TypingFocus(e)
    \/ \E c \in TypeChars : TypeChar(c)
    \/ \E key \in Keys : KeyDown(key)
    \/ ClickOutside
    \/ \E moves \in BOOLEAN : CloseClick(moves)
    \/ Fire
    \/ Tick
    \/ Expire
    \/ UpdateLoadDone

DismissSpec == Init /\ [][DismissNext]_allvars

\* The feature toggle, from construction on.
StartupNext ==
    \/ \E e \in Elements : TypingFocus(e)
    \/ \E c \in TypeChars : TypeChar(c)
    \/ Scroll
    \/ Fire
    \/ Tick
    \/ Expire
    \/ LoadDone
    \/ UpdateLoadDone
    \/ LoadSettingsDone
    \/ SettingChanged

StartupSpec == StartupInit /\ [][StartupNext]_allvars

\* ---------------------------------------------------- pure fuzzy-match check
FuzzyChars == {"c", "a", "t", "C"}

RECURSIVE StringsUpTo(_, _)
StringsUpTo(chars, n) ==
    IF n = 0 THEN {<<>>}
    ELSE LET S == StringsUpTo(chars, n - 1)
         IN  S \cup {Append(s, c) : s \in {x \in S : Len(x) = n - 1}, c \in chars}


\* ------------------------------------------------- field classification
\* namePatterns, in the order of its entries: <<keyword, field type>>.
namePatterns ==
    <<<<<<"e", "m", "a", "i", "l">>, "email">>,
       <<<<"m", "a", "i", "l">>, "email">>,
       <<<<"p", "h", "o", "n", "e">>, "tel">>,
       <<<<"t", "e", "l", "e", "p", "h", "o", "n", "e">>, "tel">>,
       <<<<"m", "o", "b", "i", "l", "e">>, "tel">>,
       <<<<"n", "a", "m", "e">>, "name">>,
       <<<<"f", "i", "r", "s", "t", "n", "a", "m", "e">>, "name">>,
       <<<<"l", "a", "s", "t", "n", "a", "m", "e">>, "name">>,
       <<<<"f", "u", "l", "l", "n", "a", "m", "e">>, "name">>,
       <<<<"a", "d", "d", "r", "e", "s", "s">>, "address">>,
       <<<<"s", "t", "r", "e", "e", "t">>, "address">>,
       <<<<"c", "i", "t", "y">>, "address">>,
       <<<<"z", "i", "p">>, "address">>,
       <<<<"p", "o", "s", "t", "a", "l">>, "address">>,
       <<<<"m", "e", "s", "s", "a", "g", "e">>, "message">>,
       <<<<"c", "o", "m", "m", "e", "n", "t">>, "message">>,
       <<<<"d", "e", "s", "c", "r", "i", "p", "t", "i", "o", "n">>, "message">>,
       <<<<"b", "o", "d", "y">>, "message">>,
       <<<<"s", "u", "b", "j", "e", "c", "t">>, "subject">>,
       <<<<"t", "i", "t", "l", "e">>, "subject">>>>

\* The first entry of namePatterns whose keyword the text includes, 0 when
\* there is none (the for..of loop over Object.entries).
RECURSIVE FirstPattern(_, _)
FirstPattern(text, i) ==
    IF i > Len(namePatterns) THEN 0
    ELSE IF Includes(text, namePatterns[i][1]) THEN i
    ELSE FirstPattern(text, i + 1)

\* detectFieldType(element) for an input or a textarea.  element.type is
\* the declared kind of an input and "textarea" for a textarea.
detectFieldType(el) ==
    LET inputType == IF el.tag = "textarea" THEN "textarea" ELSE el.type
        name == ToLower(IF el.name # <<>> THEN el.name ELSE el.id)
        placeholder == ToLower(el.placeholder)
        byName == FirstPattern(name, 1)
        byPlaceholder == FirstPattern(placeholder, 1)
    IN  IF inputType # "" /\ inputType # "text" THEN inputType
        ELSE IF byName > 0 THEN namePatterns[byName][2]
        ELSE IF byPlaceholder > 0 THEN namePatterns[byPlaceholder][2]
        ELSE "text"

\* The elements classified: inputs of two declared kinds and textareas,
\* with every choice of name, id and placeholder among a few texts.
FieldElements ==
    LET texts == {<<>>, <<"n", "o", "t", "e">>, <<"C", "i", "t", "y">>,
                  <<"c", "i", "t", "y", "e", "m", "a", "i", "l">>}
    IN  [tag : {"input"}, type : {"text", "email"}, name : texts, id : texts,
         placeholder : texts]
        \cup
        [tag : {"textarea"}, type : {"textarea"}, name : texts, id : texts,
         placeholder : texts]

FieldInit ==
    /\ LoadedInit
    /\ RankIdle
    /\ InsertIdle
    /\ UsageIdle
    /\ fq = <<>>
    /\ ft = <<>>
    /\ fr = -1
    /\ field \in FieldElements
    /\ fieldType = ""

FieldCompute ==
    /\ fieldType = ""
    /\ fieldType' = detectFieldType(field)
    /\ UNCHANGED <<fq, ft, fr, field>>
    /\ UNCHANGED <<vars, rvars, ivars, uvars>>

FieldNext == FieldCompute

FieldSpec == FieldInit /\ [][FieldNext]_allvars

\* The session state stays at its initial value; fq and ft are the inputs
\* of one call and fr its result (-1 before the call).
FuzzyInit ==
    /\ LoadedInit
    /\ RankIdle
    /\ InsertIdle
    /\ UsageIdle
    /\ fq \in StringsUpTo(FuzzyChars, MaxFuzzyLen)
    /\ ft \in StringsUpTo(FuzzyChars, MaxFuzzyLen)
    /\ fr = -1
    /\ FieldIdle

FuzzyCompute ==
    /\ fr = -1
    /\ fr' = fuzzyMatch(fq, ft)
    /\ UNCHANGED <<fq, ft, field, fieldType>>
    /\ UNCHANGED <<vars, rvars, ivars, uvars>>

FuzzyNext == FuzzyCompute

FuzzySpec == FuzzyInit /\ [][FuzzyNext]_allvars

\* ------------------------------------------------------- ranking model
\* One call of updateSuggestions and one of checkTabCompletion on a session
\* whose query, surface and cache are the inputs; the rest of the session
\* state stays at its initial value.  Both are called for the tracked
\* surface only, so the session has a surface and its context.
RankChars == {"s", "i", "g"}

Reverse(seq) == [i \in 1..Len(seq) |-> seq[Len(seq) + 1 - i]]

\* The caches: every selection of candidates, in store order or reversed.
Caches ==
    LET ids == {Catalogue[i] : i \in DOMAIN Catalogue}
        pick(S) == SelectSeq(Catalogue, LAMBDA id : id \in S)
    IN  {pick(S) : S \in SUBSET ids} \cup {Reverse(pick(S)) : S \in SUBSET ids}

RankInit ==
    /\ LoadedInit
    /\ InsertIdle
    /\ UsageIdle
    /\ fq = <<>>
    /\ ft = <<>>
    /\ fr = -1
    /\ FieldIdle
    /\ rankQuery \in StringsUpTo(RankChars, MaxQueryLen)
    /\ rankElement \in Elements
    /\ rankCache \in Caches
    /\ rankSuggestions = <<>>
    /\ rankTabMatch = NoMacro
    /\ rankDone = FALSE
    /\ tabDone = FALSE

\* The session the calls are made on: the surface, if any, has focus.
RankSession ==
    [Cur EXCEPT !.query = rankQuery,
                !.currentElement = rankElement,
                !.activeElement = rankElement,
                !.macrosCache = rankCache]

\* updateSuggestions(), the cache being fresh
RankCompute ==
    /\ ~rankDone
    /\ rankDone' = TRUE
    /\ rankSuggestions' = updateSuggestions(RankSession).suggestions
    /\ UNCHANGED <<rankQuery, rankElement, rankCache, rankTabMatch, tabDone>>
    /\ UNCHANGED <<vars, fvars, ivars, uvars>>

\* checkTabCompletion(query)
TabCompute ==
    /\ ~tabDone
    /\ tabDone' = TRUE
    /\ rankTabMatch' = checkTabCompletion(RankSession, rankQuery).tabCompletionMatch
    /\ UNCHANGED <<rankQuery, rankElement, rankCache, rankSuggestions, rankDone>>
    /\ UNCHANGED <<vars, fvars, ivars, uvars>>

RankNext ==
    \/ RankCompute
    \/ TabCompute

RankSpec == RankInit /\ [][RankNext]_allvars


\* One call of checkTabCompletion for every query and every cache that
\* holds some of three macros in some order.
TabCaches ==
    LET ids == {"sig", "sip", "ig"}
    IN  {c \in UNION {[1..n -> ids] : n \in 0..Cardinality(ids)} :
            \A i, j \in DOMAIN c : c[i] = c[j] => i = j}

TabInit ==
    /\ LoadedInit
    /\ InsertIdle
    /\ UsageIdle
    /\ fq = <<>>
    /\ ft = <<>>
    /\ fr = -1
    /\ FieldIdle
    /\ rankQuery \in StringsUpTo(RankChars, MaxQueryLen)
    /\ rankElement \in Elements
    /\ rankCache \in TabCaches
    /\ rankSuggestions = <<>>
    /\ rankTabMatch = NoMacro
    /\ rankDone = FALSE
    /\ tabDone = FALSE

TabNext == TabCompute

TabSpec == TabInit /\ [][TabNext]_allvars

\* ----------------------------------------------------- insertion model
\* One call of insertMacro on a surface of its own: the text, the caret or
\* selection, the tracked query and the macro are the inputs.  The engine's
\* reaction to the input event the insertion dispatches is the input step
\* of the session model.
InsertChars == {"s", "i", " "}

\* The calls of insertMacro: Tab passes the held match, which
\* checkTabCompletion chose for the query; Enter and a click on a suggestion
\* pass a listed macro.  The caret may have moved since the query was
\* tracked (arrow keys, a selection), the text has not.
InsertInit ==
    /\ LoadedInit
    /\ RankIdle
    /\ UsageIdle
    /\ fq = <<>>
    /\ ft = <<>>
    /\ fr = -1
    /\ FieldIdle
    /\ insKind \in {"plain", "rich"}
    /\ insValue \in StringsUpTo(InsertChars, MaxInsertLen)
    /\ rangeCount \in (IF insKind = "rich" THEN {0, 1} ELSE {1})
    /\ selectionStart \in (IF rangeCount = 0 THEN {0} ELSE 0..Len(insValue))
    /\ selectionEnd \in (IF rangeCount = 0 THEN {0} ELSE selectionStart..Len(insValue))
    /\ insQuery \in {LastToken(SubSeq(insValue, 1, p)) : p \in 0..Len(insValue)}
    /\ isTabCompletion \in BOOLEAN
    /\ insMacro \in {"sig", "clip"}
    /\ isTabCompletion =>
           insMacro = checkTabCompletion(Cur, insQuery).tabCompletionMatch
    /\ clipboardGranted \in BOOLEAN
    /\ processedContent = <<>>
    /\ dispatched = <<>>
    /\ storeUsage = 0
    /\ contextTracked = 0
    /\ insPhase = "idle"
    /\ trackPhase = "idle"
    /\ storeContextUsage = 0

\* insertMacro up to `await processMacroVariables(macro.content)`
InsertBegin ==
    /\ insPhase = "idle"
    /\ insMacro # NoMacro
    /\ Assign([Cur EXCEPT !.isInserting = TRUE])
    /\ insPhase' = "processing"
    /\ UNCHANGED <<insKind, insValue, selectionStart, selectionEnd, rangeCount,
                   insQuery, isTabCompletion, insMacro, clipboardGranted,
                   processedContent, dispatched, storeUsage, contextTracked,
                   trackPhase, storeContextUsage>>
    /\ UNCHANGED <<fvars, rvars, uvars>>

\* insertMacro from the processed content to `await incrementMacroUsage`
InsertApply ==
    /\ insPhase = "processing"
    /\ LET T == processMacroVariables(Macros[insMacro].content, clipboardGranted)
           r == IF insKind = "plain"
                THEN insertPlain(insValue, selectionStart, selectionEnd,
                                 insQuery, isTabCompletion, T)
                ELSE insertRich(insValue, selectionStart, selectionEnd,
                                insQuery, isTabCompletion, T)
       IN  /\ processedContent' = T
           /\ IF insKind = "plain"
              THEN /\ insValue' = r.value
                   /\ selectionStart' = SetCaret(r.caret, Len(r.value))
                   /\ selectionEnd' = SetCaret(r.caret, Len(r.value))
                   /\ dispatched' = dispatched \o <<"input", "change">>
              ELSE /\ IF rangeCount > 0
                      THEN /\ insValue' = r.value
                           /\ selectionStart' = r.caret
                           /\ selectionEnd' = r.caret
                      ELSE UNCHANGED <<insValue, selectionStart, selectionEnd>>
                   /\ dispatched' = Append(dispatched, "input")
    /\ insPhase' = "applied"
    /\ UNCHANGED <<insKind, rangeCount, insQuery, isTabCompletion, insMacro,
                   clipboardGranted, storeUsage, contextTracked, trackPhase,
                   storeContextUsage>>
    /\ UNCHANGED <<vars, fvars, rvars, uvars>>

\* insertMacro from the completion of incrementMacroUsage to the end of the
\* finally block; trackContextUsage is called and not awaited.  The field
\* the insertion is made in has a context, so trackContextUsage goes on to
\* its dynamic import.
InsertFinish ==
    /\ insPhase = "applied"
    /\ storeUsage' = storeUsage + 1
    /\ contextTracked' = contextTracked + 1
    /\ trackPhase' = "importing"
    /\ Assign(hideOverlay([Cur EXCEPT !.isInserting = FALSE]))
    /\ insPhase' = "done"
    /\ UNCHANGED <<insKind, insValue, selectionStart, selectionEnd, rangeCount,
                   insQuery, isTabCompletion, insMacro, clipboardGranted,
                   processedContent, dispatched, storeContextUsage>>
    /\ UNCHANGED <<fvars, rvars, uvars>>

\* trackContextUsage goes on after the dynamic import: the store counts one
\* more use for the key domain:fieldType and loadMacros() refreshes the
\* cache, or the call of the imported function throws.
TrackSettle ==
    /\ trackPhase = "importing"
    /\ trackPhase' = trackContextUsage
    /\ IF trackContextUsage = "refreshed"
       THEN /\ storeContextUsage' = storeContextUsage + 1
            /\ Assign([Cur EXCEPT !.cacheFresh = TRUE])
       ELSE /\ storeContextUsage' = storeContextUsage
            /\ Assign(Cur)
    /\ UNCHANGED <<insKind, insValue, selectionStart, selectionEnd, rangeCount,
                   insQuery, isTabCompletion, insMacro, clipboardGranted,
                   processedContent, dispatched, storeUsage, contextTracked,
                   insPhase>>
    /\ UNCHANGED <<fvars, rvars, uvars>>

InsertNext ==
    \/ InsertBegin
    \/ InsertApply
    \/ InsertFinish
    \/ TrackSettle

InsertSpec == InsertInit /\ [][InsertNext]_allvars

\* ----------------------------------------------------------- store model
\* Calls of incrementMacroUsage(id) on the store, one for each insertion
\* that got as far: the engine does not wait for one insertion to return
\* before it starts the next, and every page has an engine of its own.
\* Each chrome.storage read and write is one step.
IncRead(p, id) ==
    /\ incs[p].pc = "idle"
    /\ incs' = [incs EXCEPT ![p] =
                   IF id \in DOMAIN storeRest
                   THEN [@ EXCEPT !.id = id, !.pc = "read",
                                  !.usageCount = store[id] + 1,
                                  !.rev = storeRest[id]]
                   ELSE [@ EXCEPT !.id = id, !.pc = "absent"]]
    /\ UNCHANGED <<store, storeRest, storeVersion, notices, reads, cacheList,
                   cacheVersion, userOp>>
    /\ UNCHANGED <<vars, fvars, rvars, ivars>>

\* saveMacro: getAllMacros() resolves and the macro replaces the one of its
\* id, or is pushed when the list has none of that id
SaveRead(p) ==
    /\ incs[p].pc = "read"
    /\ incs' = [incs EXCEPT ![p].pc = "saving",
                            ![p].macros = [id \in DOMAIN store \cup {incs[p].id} |->
                                              IF id = incs[p].id THEN incs[p].usageCount
                                              ELSE store[id]],
                            ![p].rest = [id \in DOMAIN storeRest \cup {incs[p].id} |->
                                            IF id = incs[p].id THEN incs[p].rev
                                            ELSE storeRest[id]]]
    /\ UNCHANGED <<store, storeRest, storeVersion, notices, reads, cacheList,
                   cacheVersion, userOp>>
    /\ UNCHANGED <<vars, fvars, rvars, ivars>>

\* saveMacro: chrome.storage.sync.set of the whole list
SaveWrite(p) ==
    /\ incs[p].pc = "saving"
    /\ store' = incs[p].macros
    /\ storeRest' = incs[p].rest
    /\ storeVersion' = storeVersion + 1
    /\ notices' = notices + 1
    /\ incs' = [incs EXCEPT ![p].pc = "done"]
    /\ UNCHANGED <<reads, cacheList, cacheVersion, userOp>>
    /\ UNCHANGED <<vars, fvars, rvars, ivars>>

UsageNext ==
    \/ \E p \in 1..MaxIncrements : \E id \in StoredIds : IncRead(p, id)
    \/ \E p \in 1..MaxIncrements : SaveRead(p)
    \/ \E p \in 1..MaxIncrements : SaveWrite(p)

UsageSpec == Init /\ [][UsageNext]_allvars


\* deleteMacro(id) called for the user: getAllMacros() resolves and the
\* list is filtered.
DeleteRead(id) ==
    /\ userOp.kind \in {"none", "done"}
    /\ userOp.calls < MaxUserOps
    /\ userOp' = [kind |-> "delete", id |-> id,
                  macros |-> [i \in DOMAIN store \ {id} |-> store[i]],
                  rest |-> [i \in DOMAIN storeRest \ {id} |-> storeRest[i]],
                  calls |-> userOp.calls + 1]
    /\ UNCHANGED <<store, incs, storeRest, storeVersion, notices, reads, cacheList,
                   cacheVersion>>
    /\ UNCHANGED <<vars, fvars, rvars, ivars>>

\* saveMacro(macro) called for the user with an edited copy of the stored
\* macro id: getAllMacros() resolves and the copy replaces the stored one.
EditRead(id) ==
    /\ userOp.kind \in {"none", "done"}
    /\ userOp.calls < MaxUserOps
    /\ id \in DOMAIN store
    /\ userOp' = [kind |-> "save", id |-> id,
                  macros |-> store,
                  rest |-> [storeRest EXCEPT ![id] = @ + 1],
                  calls |-> userOp.calls + 1]
    /\ UNCHANGED <<store, incs, storeRest, storeVersion, notices, reads, cacheList,
                   cacheVersion>>
    /\ UNCHANGED <<vars, fvars, rvars, ivars>>

\* chrome.storage.sync.set of the list that deleteMacro or saveMacro built
UserWrite ==
    /\ userOp.kind \in {"delete", "save"}
    /\ store' = userOp.macros
    /\ storeRest' = userOp.rest
    /\ storeVersion' = storeVersion + 1
    /\ notices' = notices + 1
    /\ userOp' = [userOp EXCEPT !.kind = "done"]
    /\ UNCHANGED <<incs, reads, cacheList, cacheVersion>>
    /\ UNCHANGED <<vars, fvars, rvars, ivars>>

\* Usage increments of the engine interleaved with the deletions and edits
\* the user makes in the popup.
StoreNext ==
    \/ \E p \in 1..MaxIncrements : \E id \in StoredIds : IncRead(p, id)
    \/ \E p \in 1..MaxIncrements : SaveRead(p)
    \/ \E p \in 1..MaxIncrements : SaveWrite(p)
    \/ \E id \in StoredIds : DeleteRead(id)
    \/ \E id \in StoredIds : EditRead(id)
    \/ UserWrite

StoreSpec == Init /\ [][StoreNext]_allvars

\* The change listener of the engine (setupStorageListener): the list has
\* changed and loadMacros() starts a read.
OnChanged ==
    /\ notices > 0
    /\ notices' = notices - 1
    /\ reads' = Append(reads, [version |-> -1, list |-> StoreList])
    /\ UNCHANGED <<store, incs, storeRest, storeVersion, cacheList,
                   cacheVersion, userOp>>
    /\ UNCHANGED <<vars, fvars, rvars, ivars>>

\* chrome.storage serves the get of the read at place i.
LoadServed(i) ==
    /\ i \in DOMAIN reads
    /\ reads[i].version = -1
    /\ reads' = [reads EXCEPT ![i] = [version |-> storeVersion, list |-> StoreList]]
    /\ UNCHANGED <<store, incs, storeRest, storeVersion, notices, cacheList,
                   cacheVersion, userOp>>
    /\ UNCHANGED <<vars, fvars, rvars, ivars>>

\* The callback of the read at place i runs and loadMacros() goes on:
\* macros, macrosCache and cacheTimestamp are assigned.
LoadResolved(i) ==
    /\ i \in DOMAIN reads
    /\ reads[i].version # -1
    /\ reads' = SubSeq(reads, 1, i - 1) \o SubSeq(reads, i + 1, Len(reads))
    /\ cacheList' = reads[i].list
    /\ cacheVersion' = reads[i].version
    /\ Assign([Cur EXCEPT !.macrosCache = StoreMacros, !.cacheFresh = TRUE])
    /\ UNCHANGED <<store, incs, storeRest, storeVersion, notices, userOp>>
    /\ UNCHANGED <<fvars, rvars, ivars>>


\* A surface takes and loses the focus and time passes, with no key, click
\* or text entered by the user.  Timers run when they are due and a read of
\* the store that was started completes.
IdleNext ==
    \/ \E e \in Elements : TypingFocus(e)
    \/ Blur
    \/ Fill
    \/ Expire
    \/ UpdateLoadDone
    \/ Fire
    \/ Tick
    \/ LongIdle

IdleSpec ==
    /\ Init
    /\ [][IdleNext]_allvars
    /\ WF_allvars(Fire)
    /\ WF_allvars(Tick)
    /\ WF_pendingUpdates(pendingUpdates > 0 /\ pendingUpdates' = pendingUpdates - 1)

\* Usage increments written to the store and the refreshes of the cache
\* that their change events start.
CacheNext ==
    \/ \E p \in 1..MaxIncrements : \E id \in StoredIds : IncRead(p, id)
    \/ \E p \in 1..MaxIncrements : SaveRead(p)
    \/ \E p \in 1..MaxIncrements : SaveWrite(p)
    \/ OnChanged
    \/ \E i \in 1..MaxIncrements : LoadServed(i)
    \/ \E i \in 1..MaxIncrements : LoadResolved(i)

CacheSpec == Init /\ [][CacheNext]_allvars

\* -------------------------------------------------- session with insertions
\* Typing and the keys of the overlay, Enter and Tab included, with the
\* insertions they start, against a fresh cache.
KeyChars == {"s", "i"}
OverlayKeys == {"ArrowDown", "ArrowUp", "Escape"} \cup CommitKeys

\* The typed field gets focus.
KeyFocus == focusToken < MaxKeyFocus /\ Focus(TypedElement)

\* A key of the overlay goes down.
KeyStroke(key) == KeyDown(key) /\ insertCalls' <= MaxKeyCalls

KeyNext ==
    \/ KeyFocus
    \/ \E c \in KeyChars : TypeChar(c)
    \/ \E key \in OverlayKeys : KeyStroke(key)
    \/ \E moves \in BOOLEAN : MinimizeClick(moves)
    \/ \E moves \in BOOLEAN : IconClick(moves)
    \/ \E ok \in BOOLEAN : UsageSettled(ok)
    \/ Fire
    \/ Tick

KeySpec == Init /\ [][KeyNext]_allvars

\* The overlay's own controls: hover, minimize and expand, while the
\* recomputations wait for the store.
OverlayChars == {"i", "g"}

OverlayNext ==
    \/ TypingFocus(TypedElement)
    \/ Blur
    \/ \E c \in OverlayChars : TypeChar(c)
    \/ \E key \in {"ArrowDown", "ArrowUp"} : KeyDown(key)
    \/ \E index \in 0..(MAX_SUGGESTIONS - 1) : Hover(index)
    \/ \E moves \in BOOLEAN : MinimizeClick(moves)
    \/ \E moves \in BOOLEAN : IconClick(moves)
    \/ Fire
    \/ Tick
    \/ Expire
    \/ UpdateLoadDone

OverlaySpec == Init /\ [][OverlayNext]_allvars

\* Insertions into the typed field and into the contentEditable region
\* while focus leaves them.
RichFocus == focusToken < MaxTypingFocus /\ Focus(RichElement)
BlurChars == {"s"}
BlurKeys == {"Enter", "Escape"}

BlurNext ==
    \/ RichFocus
    \/ TypingFocus(TypedElement)
    \/ Blur
    \/ \E c \in BlurChars : TypeRich(c)
    \/ \E c \in BlurChars : TypeChar(c)
    \/ \E key \in BlurKeys : KeyDown(key)
    \/ \E ok \in BOOLEAN : UsageSettled(ok)
    \/ LoadDone
    \/ Fire
    \/ Tick

BlurSpec == Init /\ [][BlurNext]_allvars

\* Q is an in-order subsequence of T
RECURSIVE IsSubsequence(_, _)
IsSubsequence(q, t) ==
    IF Len(q) = 0 THEN TRUE
    ELSE IF Len(t) = 0 THEN FALSE
    ELSE IF Head(q) = Head(t) THEN IsSubsequence(Tail(q), Tail(t))
    ELSE IsSubsequence(q, Tail(t))

SubsequenceOnly(q, t) ==
    /\ ToLower(t) # ToLower(q)
    /\ ~StartsWith(ToLower(t), ToLower(q))
    /\ ~Includes(ToLower(t), ToLower(q))
    /\ IsSubsequence(ToLower(q), ToLower(t))

\* C10: a query that matches a text only as a scattered subsequence scores
\* in [40, 60), strictly below the substring score.
C10_SubsequenceBelowSubstring ==
    (fr # -1 /\ SubsequenceOnly(fq, ft)) => (fr >= 40 * Scale /\ fr < 60 * Scale)

\* ------------------------------------------------------------------ claims
\* The session variables other than the timers.
sessionButTimers ==
    <<activeElement, value, active, currentElement, query, suggestions,
      selectedIndex, tabCompletionMatch, macrosCache, cacheFresh,
      overlayContainer, overlayAnchor, inlineSuggestion, isEnabled,
      storedEnabled, settingsLoading, lastInputWasHuman, gap, isMinimized,
      dismissedForCurrentInput, userExpandedForCurrentInput, focusToken,
      loads, pendingUpdates, keyMark, keySinceFocus, escaped, suggestionsFor,
      isInserting, inFlight, insertCalls, overlayItems, caretInText,
      closedByInsert, userMinimized>>

\* The step runs the callback of the expired timer t.
Fires(t) == t.rem = 0 /\ timers' = timers \ {t}

\* The step is an input event on the tracked surface e.
ChangeOn(e) == currentElement = e /\ value'[e] # value[e]

\* C1: while the session is active, its overlay and its suggestion list are
\* those built for the current surface; focusing another surface leaves no
\* state with the session active on what was built for the previous one.
C1_SessionBuiltForCurrentSurface ==
    active => (overlayAnchor = currentElement /\ suggestionsFor = currentElement)

C3_EscapeStaysHidden ==
    escaped => (~active /\ overlayContainer = "none")

\* C4: while the feature toggle is off, neither the overlay nor the ghost
\* text is visible.
C4_DisabledShowsNothing ==
    ~isEnabled => (overlayContainer = "none" /\ inlineSuggestion = NoGhost)

\* C5: a focus-delay timer or a follow-up timer of a focus event that a
\* later focus event has superseded does nothing when it runs.
C5_SupersededCallbackIsNoOp ==
    [][\A t \in timers :
          (Fires(t) /\ t.kind \in {"focus", "filled", "empty"}
                    /\ t.token # focusToken)
              => UNCHANGED sessionButTimers]_allvars

\* C6: a change that fills the tracked, empty field with text and was not
\* preceded by a keystroke neither recomputes the query nor shows the
\* overlay.
C6_FillOfEmptyFieldIsSuppressed ==
    [][\A e \in Elements :
          (ChangeOn(e) /\ value[e] = <<>> /\ value'[e] # <<>> /\ keyMark # "key")
              => (query' = query
                  /\ (overlayContainer = "none" => overlayContainer' = "none"))]_allvars

\* C7: the follow-up timer of the focus of a surface that holds text does
\* not show the overlay when no keystroke was handled on that surface since
\* the focus event.
C7_PrefilledFocusShowsNothing ==
    [][\A t \in timers :
          (Fires(t) /\ t.kind = "filled" /\ t.token = focusToken
                    /\ Len(value[t.el]) > 0 /\ ~keySinceFocus
                    /\ overlayContainer = "none")
              => overlayContainer' = "none"]_allvars

\* C8: the change that follows a character, Backspace or Delete key press
\* is classified human whatever time has passed, and the change that
\* follows a paste is classified non-human.
C8_KeyMarksNextChangeHuman ==
    [][\A e \in Elements :
          ChangeOn(e) => /\ (keyMark = "key" => lastInputWasHuman')
                         /\ (keyMark = "paste" => ~lastInputWasHuman')]_allvars

\* C9: a tab-completion match is held only for a query of at least two
\* characters that fuzzy-matches the name of the match at 60 or more.
C9_TabMatchNeedsQuery ==
    tabCompletionMatch # NoMacro =>
        /\ Len(query) >= TAB_MIN_QUERY
        /\ fuzzyMatch(query, Macros[tabCompletionMatch].name) >= TAB_MATCH_SCORE * Scale

\* Case folding, prefix and substring as the claims state them.
Folded(x) == [i \in DOMAIN x |-> LowerChar(x[i])]

PrefixOf(q, t) == \E n \in 0..Len(t) : SubSeq(t, 1, n) = q

SubstringOf(q, t) == \E i \in 1..(Len(t) + 1) : \E j \in (i - 1)..Len(t) : SubSeq(t, i, j) = q

\* C11: for a non-empty query and text, case-insensitive equality scores
\* 100, a proper prefix 80, a substring that is no prefix 60, a query that
\* is no in-order subsequence of the text 0, and a query that is only a
\* scattered subsequence scores between the no-match and substring scores.
C11_FuzzyMatchClasses ==
    (fr # -1 /\ Len(fq) > 0 /\ Len(ft) > 0) =>
        LET q == Folded(fq)
            t == Folded(ft)
        IN  /\ (q = t) => fr = 100 * Scale
            /\ (q # t /\ PrefixOf(q, t)) => fr = 80 * Scale
            /\ (~PrefixOf(q, t) /\ SubstringOf(q, t)) => fr = 60 * Scale
            /\ ~IsSubsequence(q, t) => fr = 0
            /\ (~SubstringOf(q, t) /\ IsSubsequence(q, t)) =>
                   (fr >= 0 /\ fr <= 60 * Scale)

\* A query that is a proper prefix of the text up to case has been scored.
C11_Witness ==
    fr = 80 * Scale /\ fq = <<"C", "a">> /\ ft = <<"c", "a", "t">>

\* C12: the tab-completion match is never a macro whose name matches the
\* query only as a scattered subsequence.
C12_SubsequenceNeverTabMatch ==
    (tabDone /\ rankTabMatch # NoMacro) =>
        ~SubsequenceOnly(rankQuery, Macros[rankTabMatch].name)

\* The ranked macros, their places in the cache and the claims' scores.
Ranked == {rankSuggestions[i] : i \in DOMAIN rankSuggestions}

Cached == {rankCache[i] : i \in DOMAIN rankCache}

Affinity(id) == matchMacroToContext(Macros[id], analyzeFieldContext(rankElement))

Composite(id) ==
      Max(fuzzyMatch(rankQuery, Macros[id].name),
          fuzzyMatch(rankQuery, Macros[id].content) \div 2)
    + (3 * Affinity(id)) \div 10
    + 5 * Macros[id].usageCount

CachePlace(id) == CHOOSE i \in DOMAIN rankCache : rankCache[i] = id

\* C13: for an empty query a macro is listed only if there is a context,
\* its context affinity is not zero and affinity + 0.1 * usageCount is
\* strictly greater than 30.
C13_EmptyQueryNeedsContext ==
    (rankDone /\ Len(rankQuery) = 0) =>
        \A id \in Ranked :
            /\ rankElement # NoElem
            /\ Affinity(id) > 0
            /\ Affinity(id) + 10 * Macros[id].usageCount > 30 * Scale

\* An empty query on the email field ranks "mail" alone out of a cache that
\* also holds a macro used more often and one at exactly 30.
C13_Witness ==
    /\ rankDone /\ rankQuery = <<>> /\ rankElement = "B"
    /\ {"top", "mall", "mail"} \subseteq Cached
    /\ rankSuggestions = <<"mail">>

\* C14: the suggestion list has at most 5 entries and no duplicates, is in
\* non-increasing order of score, and leaves out no passing candidate that
\* scores strictly higher than a listed one.
C14_RankedListShape ==
    rankDone =>
        LET score(id) == Score(Macros[id], rankQuery, rankElement)
        IN  /\ Len(rankSuggestions) <= 5
            /\ \A i, j \in DOMAIN rankSuggestions :
                   i < j => /\ rankSuggestions[i] # rankSuggestions[j]
                            /\ score(rankSuggestions[i]) >= score(rankSuggestions[j])
            /\ Ranked \subseteq Cached
            /\ \A id \in Cached \ Ranked :
                   score(id) > Threshold(rankQuery) =>
                       /\ Len(rankSuggestions) = 5
                       /\ \A r \in Ranked : score(id) <= score(r)

\* Six candidates pass for the query "s" and the list keeps the best five.
C14_Witness ==
    /\ rankDone /\ rankQuery = <<"s">> /\ rankCache = Catalogue
    /\ Len(rankSuggestions) = 5
    /\ "top" \notin Ranked

\* C15: of two listed candidates with equal score the one used more
\* recently comes first, and cache order decides only between candidates
\* whose last-used timestamps are equal too.
C15_TieBreakByLastUsed ==
    rankDone =>
        \A i, j \in DOMAIN rankSuggestions :
            LET a == rankSuggestions[i]
                b == rankSuggestions[j]
            IN  (i < j /\ Score(Macros[a], rankQuery, rankElement)
                           = Score(Macros[b], rankQuery, rankElement)) =>
                    \/ Macros[a].lastUsed > Macros[b].lastUsed
                    \/ /\ Macros[a].lastUsed = Macros[b].lastUsed
                       /\ CachePlace(a) < CachePlace(b)

\* C16: for a non-empty query the list is ordered by
\* max(fuzzy(query, name), 0.5 * fuzzy(query, body)) + 0.3 * affinity
\* + 0.05 * usageCount, holds only candidates for which that score is
\* strictly greater than 20, and holds every such candidate while it has
\* room.
C16_TypedScoreAndThreshold ==
    (rankDone /\ Len(rankQuery) > 0) =>
        /\ \A id \in Ranked : Composite(id) > 20 * Scale
        /\ \A id \in Cached \ Ranked :
               Composite(id) > 20 * Scale => Len(rankSuggestions) = 5
        /\ \A i, j \in DOMAIN rankSuggestions :
               i < j => Composite(rankSuggestions[i]) >= Composite(rankSuggestions[j])

\* A candidate at 20.05 is listed and one at exactly 20 is dropped.
C16_Witness ==
    /\ rankDone /\ rankQuery = <<"g">> /\ rankElement = "A"
    /\ {"pop", "top"} \subseteq Cached
    /\ "top" \in Ranked /\ "pop" \notin Ranked
    /\ Len(rankSuggestions) < 5

\* The step mutates the surface: insertMacro passes from the processed
\* content to the dispatch of the events.
Applying == insPhase = "processing" /\ insPhase' = "applied"

\* C17: on a plain field with a collapsed caret at p and the tracked query
\* the trailing text before p, an insertion that replaces the query leaves
\* before(p - |Q|) + T + after(p), the caret at p - |Q| + |T|, and
\* dispatches the input and change events.
C17_ReplaceQueryInsertion ==
    [][(/\ Applying
        /\ insKind = "plain"
        /\ selectionStart = selectionEnd
        /\ selectionStart >= Len(insQuery)
        /\ SubSeq(insValue, selectionStart - Len(insQuery) + 1, selectionStart) = insQuery)
       => LET p == selectionStart
              T == processedContent'
          IN  /\ insValue' = SubSeq(insValue, 1, p - Len(insQuery)) \o T
                              \o SubSeq(insValue, p + 1, Len(insValue))
              /\ selectionStart' = p - Len(insQuery) + Len(T)
              /\ selectionEnd' = selectionStart'
              /\ dispatched' = dispatched \o <<"input", "change">>]_allvars

\* Tab has replaced the query "si" at the end of " si" by the body of "sig".
C17_Witness ==
    /\ insPhase = "applied" /\ insKind = "plain" /\ isTabCompletion
    /\ insQuery = <<"s", "i">>
    /\ insValue = <<" ", "s", "i", "g", "!">>
    /\ selectionStart = 5
    /\ dispatched = <<"input", "change">>

\* C18: a tab-completion insertion into a plain field whose text before the
\* caret does not end with the tracked query (case-insensitively) deletes
\* nothing but the selection and leaves the caret just after the inserted
\* text.
C18_TabInsertionKeepsOtherText ==
    [][(/\ Applying
        /\ insKind = "plain"
        /\ isTabCompletion
        /\ ~EndsWith(ToLower(SubSeq(insValue, 1, selectionStart)), ToLower(insQuery)))
       => /\ insValue' = SubSeq(insValue, 1, selectionStart) \o processedContent'
                          \o SubSeq(insValue, selectionEnd + 1, Len(insValue))
          /\ selectionStart' = selectionStart + Len(processedContent')
          /\ selectionStart' >= 0]_allvars

\* C19: an insertion on a rich-text surface with no selection available
\* neither changes the surface, nor dispatches an event, nor counts a use.
C19_NoSelectionAborts ==
    [][(insKind = "rich" /\ rangeCount = 0)
       => /\ insValue' = insValue
          /\ dispatched' = dispatched
          /\ storeUsage' = storeUsage]_allvars

\* C20: an insertion whose body has a variable that cannot be processed
\* (the clipboard read is denied) leaves the text and the caret as they
\* were, counts no use, and ends with the insertion flag cleared.
C20_FailedProcessingAborts ==
    [][(/\ insMacro # NoMacro
        /\ \E i \in DOMAIN Macros[insMacro].content :
               Macros[insMacro].content[i] = ClipboardToken
        /\ ~clipboardGranted)
       => /\ insValue' = insValue
          /\ selectionStart' = selectionStart
          /\ selectionEnd' = selectionEnd
          /\ storeUsage' = storeUsage
          /\ (insPhase' = "done" => ~isInserting')]_allvars

\* C21: after a successful insertion has completed, the overlay and the
\* ghost text are closed and stay closed until the next change or focus
\* event; neither the input event the insertion dispatches nor anything
\* else shows the overlay again.
C21_ClosedAfterInsertion ==
    closedByInsert =>
        (~active /\ overlayContainer = "none" /\ inlineSuggestion = NoGhost)

\* The calls of incrementMacroUsage(id) that have returned.
C22_Completed(id) ==
    {p \in 1..MaxIncrements : incs[p].pc = "done" /\ incs[p].id = id}

\* C22: whenever every insertion's usage notification has returned, the
\* stored usage counter of each macro is its starting value plus the number
\* of completed insertions of that macro, however the reads and writes of
\* the notifications interleaved.
C22_UsageCountsInsertions ==
    (\A p \in 1..MaxIncrements : incs[p].pc \in {"idle", "done"}) =>
        \A id \in StoredIds :
            store[id] = Macros[id].usageCount + Cardinality(C22_Completed(id))

\* C23: once the context tracking of a successful insertion has run, the
\* store has counted one more use of the macro for the key domain:fieldType
\* for every such insertion, and the candidate cache has been refreshed.
C23_ContextUsageRecorded ==
    trackPhase \notin {"idle", "importing"} =>
        (storeContextUsage = contextTracked /\ trackPhase = "refreshed")

\* C24: whenever the usage notification of an insertion settles, by failing
\* as well as by succeeding, the call of insertMacro ends with the
\* insertion-in-progress flag cleared and the suggestion overlay closed.
C24_SettledInsertionCloses ==
    [][Len(inFlight') < Len(inFlight) =>
           (~isInserting' /\ ~active' /\ overlayContainer' = "none")]_allvars

\* C25: while the session is active the selected index is the place of one
\* of the suggestions, whatever event set it: an arrow key, the pointer
\* entering an overlay item, or a recomputation that completed later.
C25_SelectedIndexInRange ==
    active => selectedIndex \in 0..(Len(suggestions) - 1)

\* The session as a Tab press that commits leaves it: one more call of
\* insertMacro, for the tab-completion match in tab-completion mode.
C26_TabCommits(s) ==
    /\ Len(s.inFlight) = Len(inFlight) + 1
    /\ SubSeq(s.inFlight, 1, Len(inFlight)) = inFlight
    /\ s.inFlight[Len(s.inFlight)].macro = tabCompletionMatch
    /\ s.inFlight[Len(s.inFlight)].isTab
    /\ s.inFlight[Len(s.inFlight)].el = currentElement

\* C26: a Tab press commits the tab-completion match exactly when the
\* session is active, the overlay is not minimized, a match exists and Shift
\* is not held; any other Tab press leaves the text and the session as they
\* were, and so do Enter, the arrows and Escape while the overlay is
\* minimized.
C26_TabCommitsOnlyOnMatch ==
    /\ (active /\ ~isMinimized /\ tabCompletionMatch # NoMacro)
           => C26_TabCommits(KeyPress(Cur, "Tab"))
    /\ ~(active /\ ~isMinimized /\ tabCompletionMatch # NoMacro)
           => KeyPress(Cur, "Tab") = Cur
    /\ KeyPress(Cur, "Shift+Tab") = Cur
    /\ isMinimized =>
           \A key \in {"Enter", "ArrowDown", "ArrowUp", "Escape"} :
               KeyPress(Cur, key) = Cur

\* A Tab press has committed "sig" in place of the query it matched.
C26_Witness ==
    /\ \E i \in DOMAIN inFlight : inFlight[i].isTab /\ inFlight[i].macro = "sig"
    /\ value[TypedElement] = <<"s", "i", "g", "!">>

C28_Quiescent ==
    /\ timers = {}
    /\ inFlight = <<>>
    /\ pendingUpdates = 0
    /\ loads = 0

\* C28: once focus has left the tracked surface for the page and everything
\* scheduled has run (the grace delay, an insertion that was in flight when
\* it expired, the store reads), the session is torn down: it is inactive
\* and neither the overlay nor the ghost text is in the page; and while a
\* call of insertMacro is in flight the callback of the grace delay, when
\* the delay has expired, does not tear the session down.
C28_TornDownAfterBlur ==
    /\ (currentElement # NoElem /\ activeElement = Body /\ C28_Quiescent) =>
           (~active /\ overlayContainer = "none" /\ inlineSuggestion = NoGhost)
    /\ inFlight # <<>> =>
           \A t \in timers :
               (t.kind = "blur" /\ t.rem = 0) =>
                   TimerCallback([Cur EXCEPT !.timers = @ \ {t}], t).active = active

\* C29: whenever an input event makes the engine score candidates (the
\* tab-completion match of a query long enough, then the ranking), the cache
\* it reads is within its TTL or a read of the store is already in flight.
C29_ScoringReadsFreshCache ==
    [][\A e \in Elements :
          (ChangeOn(e) /\ isEnabled /\ Len(LastToken(value'[e])) >= TAB_MIN_QUERY)
              => (cacheFresh \/ pendingUpdates > 0 \/ loads > 0)]_allvars

\* C30: the ranking started by an input event is applied before any later
\* event is handled: while the surface stays the same no step finds a
\* ranking still outstanding and moves the selection that the ranking will
\* then set.
C30_RankingBeforeLaterKeys ==
    [][(pendingUpdates > 0 /\ pendingUpdates' = pendingUpdates
            /\ currentElement' = currentElement /\ focusToken' = focusToken)
           => selectedIndex' = selectedIndex]_allvars

\* C31: a refresh never replaces the cache with a list older than the one
\* it holds, and once every change of the list has been notified and every
\* read has completed the cache holds the list that is in the store.
C31_CacheFollowsStore ==
    /\ [][cacheVersion' >= cacheVersion \/ cacheList' = cacheList]_allvars
    /\ []((notices = 0 /\ reads = <<>>) => cacheList = StoreList)

\* C32: whenever ghost text is displayed the feature is enabled, the surface
\* is not dismissed, a tab-completion match is held, the query is not empty,
\* the body of the match starts with the query (case-insensitively) and the
\* ghost is the rest of the body after the first |query| characters.  (The
\* caret of the model is always collapsed.)
C32_GhostMatchesState ==
    inlineSuggestion # NoGhost =>
        /\ isEnabled
        /\ ~dismissedForCurrentInput
        /\ tabCompletionMatch # NoMacro
        /\ Len(query) > 0
        /\ StartsWith(ToLower(Macros[tabCompletionMatch].content), ToLower(query))
        /\ inlineSuggestion = SubSeq(Macros[tabCompletionMatch].content,
                                     Len(query) + 1,
                                     Len(Macros[tabCompletionMatch].content))


\* The macro m of the cache passes the empty-query threshold on the surface
\* e with a nonzero context affinity.
EmptyQueryCandidate(m, e) ==
    /\ matchMacroToContext(Macros[m], analyzeFieldContext(e)) > 0
    /\ Score(Macros[m], <<>>, e) > CONTEXT_THRESHOLD * Scale

Lists(m) == \E i \in DOMAIN suggestions : suggestions[i] = m

\* The surface e is empty and holds the focus while the feature is enabled
\* and the cache holds the stored macros.
IdleOn(e) ==
    /\ activeElement = e
    /\ currentElement = e
    /\ value[e] = <<>>
    /\ isEnabled
    /\ macrosCache = StoreMacros

\* C33: when an empty eligible surface takes the focus and keeps it while
\* the feature is enabled, and the cache holds a macro whose empty-query
\* score (nonzero context affinity plus a tenth of its usage count) exceeds
\* 30, the overlay becomes visible and lists that macro, with nothing typed.
C33_EmptyFocusShowsContextMacros ==
    \A e \in Elements : \A m \in StoredIds :
        EmptyQueryCandidate(m, e) =>
            (<>[]IdleOn(e) => <>[](active /\ overlayContainer = "list" /\ Lists(m)))

C33_Witness ==
    /\ IdleOn(FilledElement)
    /\ EmptyQueryCandidate("mail", FilledElement)
    /\ query = <<>>
    /\ active
    /\ overlayContainer = "list"
    /\ Lists("mail")


\* The name of the macro id matches the query q at the tab-completion score.
NameMatches(id, q) == fuzzyMatch(q, Macros[id].name) >= TAB_MATCH_SCORE * Scale

\* The match is the first macro of the cache whose name matches q, and no
\* match when the cache holds no such macro.
IsFirstNameMatch(match, q) ==
    IF \E i \in DOMAIN rankCache : NameMatches(rankCache[i], q)
    THEN \E i \in DOMAIN rankCache :
            /\ match = rankCache[i]
            /\ NameMatches(rankCache[i], q)
            /\ \A j \in 1..(i - 1) : ~NameMatches(rankCache[j], q)
    ELSE match = NoMacro

\* C34 as stated: the tab-completion match computed for a query is the first
\* macro in cache order whose name matches the query at 60 or more, and no
\* match when there is none.
C34_FirstNameMatch ==
    tabDone => IsFirstNameMatch(rankTabMatch, rankQuery)

\* C34, amended: for a query of at least two characters the tab-completion
\* match is the first macro in cache order whose name matches the query at
\* 60 or more (whatever the scores of the later ones), and no match when
\* there is none; for a shorter query there is no match.
C34_FirstNameMatchOfLongQuery ==
    tabDone =>
        IF Len(rankQuery) >= TAB_MIN_QUERY
        THEN IsFirstNameMatch(rankTabMatch, rankQuery)
        ELSE rankTabMatch = NoMacro

\* The match was chosen although a later macro of the cache scores higher.
C34_Witness ==
    /\ tabDone
    /\ rankTabMatch # NoMacro
    /\ \E i \in DOMAIN rankCache :
          fuzzyMatch(rankQuery, Macros[rankCache[i]].name)
              > fuzzyMatch(rankQuery, Macros[rankTabMatch].name)


\* The field type the keyword table gives a text: the type of the first
\* entry, in table order, whose keyword the text includes; "" when no
\* keyword is included.
KeywordType(text) ==
    IF \E i \in DOMAIN namePatterns : Includes(ToLower(text), namePatterns[i][1])
    THEN LET i == CHOOSE i \in DOMAIN namePatterns :
                      /\ Includes(ToLower(text), namePatterns[i][1])
                      /\ \A j \in 1..(i - 1) : ~Includes(ToLower(text), namePatterns[j][1])
         IN  namePatterns[i][2]
    ELSE ""

\* The classification in the stated order.
StatedFieldType(el) ==
    LET nameOrId == IF el.name # <<>> THEN el.name ELSE el.id
    IN  IF el.tag = "input" /\ el.type # "text" THEN el.type
        ELSE IF KeywordType(nameOrId) # "" THEN KeywordType(nameOrId)
        ELSE IF KeywordType(el.placeholder) # "" THEN KeywordType(el.placeholder)
        ELSE "text"

\* C35: the field type of a plain surface, input or textarea, is its
\* declared input kind when that is not the generic text kind, else the type
\* of the first keyword family its name/id matches, else that of the first
\* family its placeholder matches, else text.
C35_FieldTypeInStatedOrder ==
    fieldType # "" => fieldType = StatedFieldType(field)


\* C36: the session is active exactly when an overlay node (list or icon) is
\* attached to the document; at most one overlay node and at most one
\* ghost-text node are attached; an active session has suggestions.
C36_ActiveMatchesOverlay ==
    /\ active <=> overlayNodes > 0
    /\ overlayNodes <= 1
    /\ ghostNodes <= 1
    /\ active => Len(suggestions) > 0

\* The overlay has been rendered again (as the icon) while ghost text is shown.
C36_Witness ==
    /\ active
    /\ overlayContainer = "icon"
    /\ overlayNodes = 1
    /\ ghostNodes = 1
    /\ inlineSuggestion # NoGhost


\* C37: a key press is acted on only when its target, the focused element,
\* is the session's current surface: no step starts an insertion (only a
\* key press, Enter or Tab, starts one here) while another element has the
\* focus.
C37_KeysActOnCurrentSurfaceOnly ==
    [][insertCalls' > insertCalls => activeElement = currentElement]_allvars


\* C38: isInserting is true in every state in which a call of insertMacro
\* has started and has not finished, overlapping calls included.
C38_InsertingWhileInFlight ==
    inFlight # <<>> => isInserting


IncrementWrites(p) == incs[p].pc = "saving" /\ incs'[p].pc = "done"

\* C40: the write of a usage increment leaves the set of macros in the
\* store as it is (a macro the user has deleted is not re-created) and
\* leaves every other macro as the user last saved it.
C40_IncrementKeepsOtherMacros ==
    [][\A p \in 1..MaxIncrements :
          IncrementWrites(p) =>
              /\ DOMAIN store' = DOMAIN store
              /\ \A id \in DOMAIN storeRest \ {incs[p].id} :
                     id \in DOMAIN storeRest' /\ storeRest'[id] = storeRest[id]]_allvars
====
